---------------------------- MODULE Spec2Model ----------------------------
(***************************************************************************)
(* Model of the Siril scripts Processinator.py and Stackinator.py.         *)
(*                                                                         *)
(* Text is modelled as a sequence of tokens: each of the characters        *)
(* "/", "." , "_" and the double quote is a token of its own, and every    *)
(* maximal run of other characters is one token, so that equality of       *)
(* token sequences is equality of the strings they spell.                  *)
(* A Python optional is a sequence of length at most one: None is <<>>     *)
(* and a value v is <<v>>.                                                 *)
(***************************************************************************)
EXTENDS Integers, Sequences, FiniteSets, TLC

VARIABLES
    script,             \* which script this process runs
    pc,                 \* position of the worker thread ("idle": no worker)
    current_file,       \* self.current_file (optional path)
    steps,              \* self.steps, the tags applied so far
    save_each_step,     \* self.save_each_step (optional: unset before a run)
    save_each_step_var, \* the "Save intermediate image" checkbox
    step_vars,          \* the step checkboxes
    close_button,       \* state of the Quit button
    process_button,     \* state of the Process button (Processinator)
    stack_button,       \* state of the Stack button (Stackinator)
    active_checkbox,    \* self.active_checkbox (optional step name)
    status,             \* text of the status label
    log,                \* history: what the run in flight (or the last one) did
    failed,             \* history: the method in which an exception was raised
    drizzle,            \* the "Enable Drizzle" checkbox (Stackinator)
    kernel_combo,       \* state of the kernel combobox (Stackinator)
    scale_combo,        \* state of the scale combobox (Stackinator)
    pc2,                \* position of a second worker thread ("idle": none)
    run_config,         \* history: the checkboxes as runner found them
    tool,               \* the call of a command line tool (optional)
    tool_pc,            \* position of the tool
    tool_out            \* what the tool has produced so far

vars == <<script, pc, current_file, steps, save_each_step, save_each_step_var,
          step_vars, close_button, process_button, stack_button,
          active_checkbox, status, log, failed, drizzle, kernel_combo,
          scale_combo, pc2, run_config, tool, tool_pc, tool_out>>

-----------------------------------------------------------------------------
(* Bounds *)

\* The selections of step checkboxes a run is started with have at most
\* MaxEnabled steps switched on, or at most MaxDisabled switched off.
MaxEnabled == 2
MaxDisabled == 1

-----------------------------------------------------------------------------
(* Python values *)

None == <<>>
Some(v) == <<v>>

INSIDE_SIRIL == TRUE

NORMAL == "normal"
DISABLED == "disabled"

-----------------------------------------------------------------------------
(* pathlib / os.path on token sequences *)

\* the value of a singleton set: Val({e : x \in {v}}) is e with x bound to
\* the value v
Val(S) == CHOOSE x \in S : TRUE

\* str.rfind: the last position of token c in p, 0 when absent
rfind(p, c) ==
    Val({ IF \E i \in 1..Len(q) : q[i] = c
          THEN CHOOSE i \in 1..Len(q) :
                  q[i] = c /\ \A j \in (i + 1)..Len(q) : q[j] # c
          ELSE 0 : q \in {p} })

\* PurePath.name: the final path component
PathName(p) == Val({ SubSeq(q, rfind(q, "/") + 1, Len(q)) : q \in {p} })

\* PurePath.parent: <<>> stands for "." (no directory part)
PathParent(p) ==
    Val({ IF i = 0 THEN <<>>
          ELSE IF i = 1 THEN <<"/">>
          ELSE SubSeq(p, 1, i - 1) : i \in {rfind(p, "/")} })

\* PurePath.suffix: the last dot and what follows it, unless the dot is the
\* first or the last character of the name
PathSuffix(p) ==
    Val({ Val({ IF 1 < i /\ i < Len(name) THEN SubSeq(name, i, Len(name))
                ELSE <<>> : i \in {rfind(name, ".")} })
          : name \in {PathName(p)} })

\* PurePath.stem
PathStem(p) ==
    Val({ Val({ IF 1 < i /\ i < Len(name) THEN SubSeq(name, 1, i - 1)
                ELSE name : i \in {rfind(name, ".")} })
          : name \in {PathName(p)} })

\* str(parent / name)
PathJoin(parent, name) ==
    Val({ IF d = <<>> THEN name
          ELSE IF d[Len(d)] = "/" THEN d \o name
          ELSE d \o <<"/">> \o name : d \in {parent} })

\* a join that keeps the last tag only
join_last(tags) ==
    Val({ IF t = <<>> THEN <<>> ELSE <<t[Len(t)]>> : t \in {tags} })

\* '_'.join(tags)
join(tags) ==
    Val({ [i \in 1..(IF t = <<>> THEN 0 ELSE 2 * Len(t) - 1) |->
              IF i % 2 = 1 THEN t[(i + 1) \div 2] ELSE "_"] : t \in {tags} })

\* f'"{name}"'
Quote(name) == <<"\"">> \o name \o <<"\"">>

\* _current_file_name testing "if suffix" instead of "is not None"
current_file_name_truthy(file, tags, suffix) ==
    Val({ Val({ PathJoin(PathParent(input_path),
                         PathStem(input_path) \o <<"_">> \o join(tags)
                            \o extension)
                : extension \in {IF sfx # None /\ sfx[1] # <<>> THEN sfx[1]
                                 ELSE PathSuffix(input_path)} })
          : input_path \in {file[1]}, sfx \in {suffix} })

\* a _current_file_name that adds the underscore only before a tag
current_file_name_bare(file, tags, suffix) ==
    Val({ Val({ PathJoin(PathParent(input_path),
                         PathStem(input_path)
                            \o (IF tags = <<>> THEN <<>> ELSE <<"_">>)
                            \o join(tags) \o extension)
                : extension \in {IF sfx # None THEN sfx[1]
                                 ELSE PathSuffix(input_path)} })
          : input_path \in {file[1]}, sfx \in {suffix} })

\* Processinator._current_file_name, of self.current_file = Some(file) and
\* self.steps = tags; suffix is an optional extension
current_file_name(file, tags, suffix) ==
    Val({ Val({ PathJoin(PathParent(input_path),
                         PathStem(input_path) \o <<"_">> \o join(tags)
                            \o extension)
                : extension \in {IF sfx # None THEN sfx[1]
                                 ELSE PathSuffix(input_path)} })
          : input_path \in {file[1]}, sfx \in {suffix} })

-----------------------------------------------------------------------------
(* Processinator: configuration *)

\* an order of the steps in which crop follows plate_solve
StepOrder_crop_fourth ==
    <<"unclip", "background_extraction", "plate_solve", "crop",
      "color_calibration", "star_separation", "stretch",
      "star_recombination", "remove_green", "curves", "adjustments",
      "denoise", "sharpen">>

\* the steps, in the order in which runner tests their checkboxes
StepOrder ==
    <<"unclip", "crop", "background_extraction", "plate_solve",
      "color_calibration", "star_separation", "stretch",
      "star_recombination", "remove_green", "curves", "adjustments",
      "denoise", "sharpen">>

StepNames == {StepOrder[i] : i \in 1..Len(StepOrder)}

\* step_configs: the steps whose checkbox is ticked at construction
DefaultSteps == StepNames \ {"star_separation", "star_recombination"}

\* the position of the worker after the block of step name
NextPc(name) ==
    LET i == CHOOSE k \in 1..Len(StepOrder) : StepOrder[k] = name
    IN  IF i = Len(StepOrder) THEN "save_result" ELSE StepOrder[i + 1]

\* the values of the step checkboxes when the user first presses Process
Selections ==
    {s \in SUBSET StepNames :
        \/ Cardinality(s) <= MaxEnabled
        \/ Cardinality(StepNames \ s) <= MaxDisabled
        \/ s = DefaultSteps
        \/ s = {"unclip", "curves", "adjustments"}
        \/ s = {"unclip", "background_extraction", "plate_solve", "crop",
                "color_calibration", "stretch", "curves", "adjustments"}}

\* the image files the host may have loaded, by directory, stem and
\* extension
FileParts ==
    { [parent |-> <<"/", "a", "/", "b">>, stem |-> <<"img">>,
       ext |-> <<".", "fit">>],
      [parent |-> <<"/", "d">>, stem |-> <<"m31", ".", "v2">>,
       ext |-> <<".", "fits">>],
      [parent |-> <<"/", "d">>, stem |-> <<"raw">>, ext |-> <<>>] }

\* the path of such a file, as get_image_filename returns it
FilePath(r) == r.parent \o <<"/">> \o r.stem \o r.ext

Files == {FilePath(r) : r \in FileParts}

\* what cv2.imread returns
Imreads == {"None", "ndarray"}

-----------------------------------------------------------------------------
(* Processinator: the step methods.                                        *)
(* A method is an operator on the record st of what the worker thread      *)
(* sees and changes while it executes one block of runner:                 *)
(*   steps, status, log   the new values of the variables                  *)
(*   by                   the method runner has called                     *)
(*   calls, failAt        the calls to the host made so far; call number   *)
(*                        failAt raises (0: none does)                     *)
(*   raised               an exception is propagating                      *)
(*   img                  what cv2.imread returns                          *)
(*   file, save           self.current_file, self.save_each_step           *)
(***************************************************************************)

Ev(type, name, arg, by, ok) ==
    [type |-> type, name |-> name, arg |-> arg, by |-> by, ok |-> ok]

\* _update_status
update_status(s, text) ==
    Val({ IF st.raised THEN st
          ELSE [st EXCEPT !.status = t,
                          !.log = Append(@, Ev("status", "status", t, st.by,
                                               TRUE))]
          : st \in {s}, t \in {text} })

\* a call to the host through self.siril: it returns or raises
host(s, type, name, arg) ==
    Val({ IF st.raised THEN st
          ELSE [st EXCEPT !.calls = st.calls + 1,
                          !.raised = (st.calls + 1 = st.failAt),
                          !.log = Append(@, Ev(type, name, arg, st.by,
                                               st.calls + 1 # st.failAt))]
          : st \in {s} })

\* self.siril.cmd(name, *args)
cmd(st, name, arg) == host(st, "cmd", name, arg)

\* self.siril.error_messagebox(text)
error_messagebox(st, text) == host(st, "msgbox", "error_messagebox", text)

\* an append that replaces the list by the new tag
append_replace(s, tag) ==
    Val({ IF st.raised THEN st ELSE [st EXCEPT !.steps = <<tag>>]
          : st \in {s} })

\* self.steps.append(tag)
append(s, tag) ==
    Val({ IF st.raised THEN st ELSE [st EXCEPT !.steps = Append(@, tag)]
          : st \in {s} })

\* cv2.imread / cv2.imwrite: direct image I/O, outside the host
cv2(s, name, arg) ==
    Val({ IF st.raised THEN st
          ELSE [st EXCEPT !.log = Append(@, Ev("cv2", name, arg, st.by, TRUE))]
          : st \in {s} })

\* os.path.basename
basename(p) == Val({ SubSeq(q, rfind(q, "/") + 1, Len(q)) : q \in {p} })

\* _save_state
save_state(s) ==
    Val({ IF INSIDE_SIRIL
          THEN Val({ cmd(update_status(st, <<"Saving result to ">>
                                              \o basename(file_name)),
                         "save", Quote(file_name))
                     : file_name \in
                          {current_file_name(st.file, st.steps, None)} })
          ELSE update_status(st, <<"Saving result">>)
          : st \in {s} })

\* _save_tiff
save_tiff(st, file_name) ==
    Val({ IF INSIDE_SIRIL
          THEN cmd(update_status(st, <<"Saving tif to ">> \o f),
                   "savetif", Quote(f) \o <<"-deflate">>)
          ELSE update_status(st, <<"Saving result">>)
          : f \in {file_name} })

\* a tail that saves whatever the save option says
tag_and_save_always(st, tag) == save_state(append(st, tag))

\* the tail shared by the step methods: append the tag, save when asked to
tag_and_save(st, tag) ==
    Val({ IF a.save = Some(TRUE) THEN save_state(a) ELSE a
          : a \in {append(st, tag)} })

\* a method that sends one command to the host
one_command(st, text, name, tag) ==
    LET a == update_status(st, <<text>>)
        b == IF INSIDE_SIRIL THEN cmd(a, name, <<>>) ELSE a
    IN  tag_and_save(b, tag)

unclip(st) == one_command(st, "Unclip", "unclipstars", "UC")

background_extraction(st) ==
    one_command(st, "Background extraction", "subsky", "BE")

plate_solve(st) == one_command(st, "Plate solve", "platesolve", "PS")

color_calibration(st) ==
    one_command(st, "Color calibration", "spcc", "SPCC")

remove_green(st) == one_command(st, "Remove green", "rmgreen", "DG")

stretch(st) == one_command(st, "Stretch", "autostretch", "ST")

adjustments(st) == one_command(st, "Adjustments", "satu", "Adj")

crop(st) ==
    LET a == update_status(st, <<"Crop">>)
        b == IF INSIDE_SIRIL
             THEN cmd(host(a, "call", "get_image_shape", <<>>), "crop", <<>>)
             ELSE a
    IN  tag_and_save(b, "CR")

star_separation(st) ==
    LET a == update_status(st, <<"Star separation">>)
        b == IF INSIDE_SIRIL
             THEN cmd(cmd(cmd(a, "starnet", <<"-stretch">>),
                          "save", <<"starless", "_", "result">>),
                      "load", <<"starless", "_", "result">>)
             ELSE a
    IN  tag_and_save(b, "StarSep")

\* os.path.join(directory, "starmask_" + filename) of os.path.split
starmask_name(file) ==
    Val({ PathJoin(IF i <= 1 THEN SubSeq(file, 1, i)
                   ELSE SubSeq(file, 1, i - 1),
                   <<"starmask", "_">> \o SubSeq(file, i + 1, Len(file)))
          : i \in {rfind(file, "/")} })

\* a recombination that saves the current image as starless_result
\* whether or not the stars were separated in this run
star_recombination_always_saves(st) ==
    LET a == update_status(st, <<"Star recombination">>)
        b == cmd(a, "save", <<"starless", "_", "result">>)
        c == cmd(b, "load", Quote(starmask_name(st.file[1])))
        d == cmd(c, "modasinh", <<"-human">>)
        e == cmd(d, "save", <<"starmask", "_", "result">>)
        f == cmd(e, "pm", <<"starless", "_", "result", "starmask", "_",
                            "result">>)
    IN  tag_and_save(IF INSIDE_SIRIL THEN f ELSE a, "StarComb")

star_recombination(st) ==
    LET a == update_status(st, <<"Star recombination">>)
        b == IF \E i \in 1..Len(a.steps) : a.steps[i] = "StarSep"
             THEN cmd(a, "save", <<"starless", "_", "result">>)
             ELSE a
        c == cmd(b, "load", Quote(starmask_name(st.file[1])))
        d == cmd(c, "modasinh", <<"-human">>)
        e == cmd(d, "save", <<"starmask", "_", "result">>)
        f == cmd(e, "pm", <<"starless", "_", "result", "starmask", "_",
                            "result">>)
    IN  tag_and_save(IF INSIDE_SIRIL THEN f ELSE a, "StarComb")

\* denoise and sharpen append their tag before the command
script_step(st, text, tag, name) ==
    Val({ IF ~INSIDE_SIRIL THEN a
          ELSE Val({ IF c.save = Some(TRUE) THEN save_state(c) ELSE c
                     : c \in {cmd(append(a, tag), "pyscript", <<name>>)} })
          : a \in {update_status(st, <<text>>)} })

denoise(st) == script_step(st, "Denoise", "DN", "CosmicClarity_Denoise.py")

sharpen(st) == script_step(st, "Sharpen", "SH", "CosmicClarity_Sharpen.py")

TIF == <<".", "tif">>

\* a curves that tells the host to load the TIFF it has read
curves_write_stale(c) ==
    Val({ Val({ IF INSIDE_SIRIL
                THEN cmd(e, "load",
                         Quote(current_file_name(c.file, c.steps, Some(TIF))))
                ELSE e
                : e \in {cv2(d, "imwrite",
                             current_file_name(d.file, d.steps, Some(TIF)))} })
          : d \in {append(c, "Curves")} })

\* curves, from the append of the tag on: c is the state after cv2.imread
curves_write(c) ==
    Val({ Val({ IF INSIDE_SIRIL
                THEN cmd(e, "load",
                         Quote(current_file_name(e.file, e.steps, Some(TIF))))
                ELSE e
                : e \in {cv2(d, "imwrite",
                             current_file_name(d.file, d.steps, Some(TIF)))} })
          : d \in {append(c, "Curves")} })

\* curves, from cv2.imread on: b is the state after _save_tiff
curves_read(b) ==
    Val({ IF c.raised THEN c
          ELSE IF c.img = "None"
          THEN IF INSIDE_SIRIL
               THEN error_messagebox(c, <<"Failed to load image">>)
               ELSE [c EXCEPT !.raised = TRUE]
          ELSE curves_write(c)
          : c \in {cv2(b, "imread",
                       current_file_name(b.file, b.steps, Some(TIF)))} })

curves(st) ==
    Val({ curves_read(save_tiff(a, current_file_name(a.file, a.steps,
                                                     Some(<<>>))))
          : a \in {update_status(st, <<"Curves">>)} })

\* a final save that is issued twice
save_result_twice(st) == save_state(save_state(st))

\* a final save that is skipped when every step has saved already
save_result_unless_saved(st) ==
    IF st.save = Some(TRUE) THEN st ELSE save_state(st)

\* save_result
save_result(st) == save_state(st)

\* the method runner calls for the step name
Method(name, st) ==
    CASE name = "unclip" -> unclip(st)
      [] name = "crop" -> crop(st)
      [] name = "background_extraction" -> background_extraction(st)
      [] name = "plate_solve" -> plate_solve(st)
      [] name = "color_calibration" -> color_calibration(st)
      [] name = "star_separation" -> star_separation(st)
      [] name = "stretch" -> stretch(st)
      [] name = "star_recombination" -> star_recombination(st)
      [] name = "remove_green" -> remove_green(st)
      [] name = "curves" -> curves(st)
      [] name = "adjustments" -> adjustments(st)
      [] name = "denoise" -> denoise(st)
      [] name = "sharpen" -> sharpen(st)
      [] name = "save_result" -> save_result(st)

\* what the worker sees when it enters the method name
Enter(name, failAt, img) ==
    [steps |-> steps, status |-> status, log |-> log, by |-> name,
     calls |-> 0, failAt |-> failAt, raised |-> FALSE, img |-> img,
     file |-> current_file, save |-> save_each_step]

\* the calls to the host the method makes when none of them raises
Calls(name, img) == Method(name, Enter(name, 0, img)).calls

\* a runner that does not look at the checkbox
step_enabled_always(name) == TRUE

\* self.step_vars[name].get(), as runner reads it when it reaches the step
step_enabled(name) == step_vars[name]

\* _highlight_step / _unhighlight_step
highlight_step(active, step_name) == Some(step_name)

unhighlight_step(active, step_name) ==
    IF active = Some(step_name) THEN None ELSE active

-----------------------------------------------------------------------------
(* Stackinator: the methods of a run, on the same record st *)

StackOrder ==
    <<"conversion", "calibration", "registration", "stack", "finalize_stack">>

StackNames == {StackOrder[i] : i \in 1..Len(StackOrder)}

StackNextPc(name) ==
    LET i == CHOOSE k \in 1..Len(StackOrder) : StackOrder[k] = name
    IN  IF i = Len(StackOrder) THEN "finally" ELSE StackOrder[i + 1]

conversion(st) ==
    LET a == update_status(st, <<"Convert subframes">>)
        b == cmd(a, "set32bits", <<>>)
        c == cmd(b, "cd", <<"lights">>)
        d == cmd(c, "link", <<"light", "-out=../process">>)
    IN  cmd(d, "cd", <<"../process">>)

\* calibration reads the drizzle checkbox when it builds calibrate_args
calibration(st, drizzle_get) ==
    LET a == update_status(st, <<"Calibrate subframes">>)
        b == cmd(a, "setfindstar", <<>>)
        calibrate_args == IF drizzle_get THEN <<"-cfa", "-equalize_cfa">>
                          ELSE <<"-debayer">>
    IN  cmd(b, "calibrate", <<"light">> \o calibrate_args)

\* registration reads the drizzle checkbox when it builds seq_args
registration(st, drizzle_get) ==
    LET a == update_status(st, <<"Register subframes">>)
        b == cmd(a, "register", <<"pp_light", "-2pass">>)
        seq_args == IF drizzle_get
                    THEN <<"-drizzle", "-scale", "-pixfrac", "-kernel">>
                    ELSE <<>>
    IN  cmd(b, "seqapplyreg", <<"pp_light", "-filter-round=2.5k">> \o seq_args)

stack(st) ==
    cmd(update_status(st, <<"Stack subframes">>), "stack", <<"r_pp_light">>)

finalize_stack(st) ==
    LET a == update_status(st, <<"Finish stacking">>)
        b == cmd(a, "mirrorx_single", <<"result">>)
        c == cmd(b, "load", <<"result">>)
    IN  cmd(c, "cd", <<"..">>)

StackMethod(name, st, drizzle_get) ==
    CASE name = "conversion" -> conversion(st)
      [] name = "calibration" -> calibration(st, drizzle_get)
      [] name = "registration" -> registration(st, drizzle_get)
      [] name = "stack" -> stack(st)
      [] name = "finalize_stack" -> finalize_stack(st)

-----------------------------------------------------------------------------
(* Initial states: the script has been started and its window built; the   *)
(* user has ticked the checkboxes of the run to come.                      *)

\* the object before any button is pressed, the checkboxes apart
Created ==
    /\ pc = "idle"
    /\ current_file = None
    /\ steps = <<>>
    /\ save_each_step = None
    /\ save_each_step_var = TRUE
    /\ close_button = NORMAL
    /\ process_button = NORMAL
    /\ stack_button = NORMAL
    /\ active_checkbox = None
    /\ status = <<"Ready">>
    /\ log = <<>>
    /\ failed = "none"
    /\ drizzle = TRUE
    /\ kernel_combo = NORMAL
    /\ scale_combo = NORMAL
    /\ pc2 = "idle"
    /\ run_config = None

Init ==
    /\ script \in {"Processinator", "Stackinator"}
    /\ Created
    /\ \E sel \in (IF script = "Processinator" THEN Selections
                   ELSE {DefaultSteps}) :
          step_vars = [n \in StepNames |-> n \in sel]
    /\ tool = None
    /\ tool_pc = "none"
    /\ tool_out = <<>>

\* the variables of the command line tools
ToolVars == <<tool, tool_pc, tool_out>>

StackVars == <<stack_button, drizzle, kernel_combo, scale_combo>>

-----------------------------------------------------------------------------
(* Processinator: the user interface thread *)

\* a process that empties the tag list before it asks for the image
process_resets_tags ==
    /\ script = "Processinator"
    /\ pc = "idle"
    /\ process_button = NORMAL
    /\ failed' = "none"
    /\ steps' = <<>>
    /\ \E name \in {None} \cup {Some(f) : f \in Files} :
          /\ current_file' = name
          /\ IF INSIDE_SIRIL /\ name = None
             THEN /\ log' = <<Ev("msgbox", "error_messagebox",
                                 <<"No image selected">>, "process", TRUE)>>
                  /\ pc' = pc
             ELSE /\ log' = <<>>
                  /\ pc' = "start"
    /\ UNCHANGED <<pc2, run_config>>
    /\ UNCHANGED ToolVars
    /\ UNCHANGED <<script, save_each_step, save_each_step_var,
                   step_vars, close_button, process_button, active_checkbox,
                   status>>
    /\ UNCHANGED StackVars

\* process: the Process button is pressed while no worker is alive; the
\* host reports the image it has loaded, if any
process ==
    /\ script = "Processinator"
    /\ pc = "idle"
    /\ process_button = NORMAL
    /\ failed' = "none"
    /\ \E name \in {None} \cup {Some(f) : f \in Files} :
          /\ current_file' = name
          /\ IF INSIDE_SIRIL /\ name = None
             THEN /\ log' = <<Ev("msgbox", "error_messagebox",
                                 <<"No image selected">>, "process", TRUE)>>
                  /\ pc' = pc
             ELSE /\ log' = <<>>
                  /\ pc' = "start"
    /\ UNCHANGED <<pc2, run_config>>
    /\ UNCHANGED ToolVars
    /\ UNCHANGED <<script, steps, save_each_step, save_each_step_var,
                   step_vars, close_button, process_button, active_checkbox,
                   status>>
    /\ UNCHANGED StackVars

\* the user ticks or unticks "Save intermediate image after each step"
click_save_each_step ==
    /\ script = "Processinator"
    /\ pc # "quit"
    /\ save_each_step_var' = ~save_each_step_var
    /\ UNCHANGED <<pc2, run_config>>
    /\ UNCHANGED ToolVars
    /\ UNCHANGED <<script, pc, current_file, steps, save_each_step, step_vars,
                   close_button, process_button, active_checkbox, status,
                   log, failed>>
    /\ UNCHANGED StackVars

\* _dispose: the Quit button is pressed while no worker is alive
dispose ==
    /\ pc = "idle"
    /\ close_button = NORMAL
    /\ pc' = "quit"
    /\ UNCHANGED <<pc2, run_config>>
    /\ UNCHANGED ToolVars
    /\ UNCHANGED <<script, current_file, steps, save_each_step,
                   save_each_step_var, step_vars, close_button,
                   process_button, active_checkbox, status, log, failed>>
    /\ UNCHANGED StackVars

-----------------------------------------------------------------------------
(* Processinator: the worker thread (runner) *)

\* runner, up to the first step: disable the buttons, reset the tags, read
\* the save option, drop the highlight a failed run has left
runner_start ==
    /\ script = "Processinator"
    /\ pc = "start"
    /\ close_button' = DISABLED
    /\ process_button' = DISABLED
    /\ steps' = <<>>
    /\ save_each_step' = Some(save_each_step_var)
    /\ active_checkbox' = IF active_checkbox # None
                          THEN unhighlight_step(active_checkbox,
                                                active_checkbox[1])
                          ELSE active_checkbox
    /\ pc' = StepOrder[1]
    /\ run_config' = Some([steps |-> {n \in StepNames : step_vars[n]},
                             save |-> save_each_step_var])
    /\ UNCHANGED pc2
    /\ UNCHANGED ToolVars
    /\ UNCHANGED <<script, current_file, save_each_step_var, step_vars,
                   status, log, failed>>
    /\ UNCHANGED StackVars

\* runner, the block of one step: when its checkbox is ticked, highlight
\* it, call its method and remove the highlight
runner_step ==
    /\ script = "Processinator"
    /\ pc \in StepNames
    /\ IF step_enabled(pc)
       THEN \E img \in (IF pc = "curves" THEN Imreads ELSE {"ndarray"}) :
            \E failAt \in 0..Calls(pc, img) :
            \E st \in {Method(pc, Enter(pc, failAt, img))} :
               LET lit == highlight_step(active_checkbox, pc)
               IN  /\ steps' = st.steps
                   /\ status' = st.status
                   /\ log' = st.log
                   /\ failed' = IF st.raised THEN pc ELSE failed
                   /\ active_checkbox' = IF st.raised THEN lit
                                         ELSE unhighlight_step(lit, pc)
                   /\ pc' = IF st.raised THEN "finally" ELSE NextPc(pc)
       ELSE /\ pc' = NextPc(pc)
            /\ UNCHANGED <<steps, status, log, failed, active_checkbox>>
    /\ UNCHANGED <<pc2, run_config>>
    /\ UNCHANGED ToolVars
    /\ UNCHANGED <<script, current_file, save_each_step, save_each_step_var,
                   step_vars, close_button, process_button>>
    /\ UNCHANGED StackVars

\* runner, after the last step: the final save
runner_save_result ==
    /\ script = "Processinator"
    /\ pc = "save_result"
    /\ \E failAt \in 0..Calls(pc, "ndarray") :
       \E st \in {Method(pc, Enter(pc, failAt, "ndarray"))} :
          /\ status' = st.status
          /\ log' = st.log
          /\ failed' = IF st.raised THEN pc ELSE failed
    /\ pc' = "finally"
    /\ UNCHANGED <<pc2, run_config>>
    /\ UNCHANGED ToolVars
    /\ UNCHANGED <<script, current_file, steps, save_each_step,
                   save_each_step_var, step_vars, close_button,
                   process_button, active_checkbox>>
    /\ UNCHANGED StackVars

\* a finally block that forgets the Process button
runner_finally_forgets ==
    /\ script = "Processinator"
    /\ pc = "finally"
    /\ close_button' = NORMAL
    /\ status' = <<"Done">>
    /\ log' = Append(log, Ev("status", "status", <<"Done">>, "runner", TRUE))
    /\ pc' = "idle"
    /\ UNCHANGED <<pc2, run_config>>
    /\ UNCHANGED ToolVars
    /\ UNCHANGED <<script, current_file, steps, save_each_step,
                   save_each_step_var, step_vars, active_checkbox, failed,
                   process_button>>
    /\ UNCHANGED StackVars

\* runner, the finally block; the worker thread ends after it
runner_finally ==
    /\ script = "Processinator"
    /\ pc = "finally"
    /\ close_button' = NORMAL
    /\ process_button' = NORMAL
    /\ status' = <<"Done">>
    /\ log' = Append(log, Ev("status", "status", <<"Done">>, "runner", TRUE))
    /\ pc' = "idle"
    /\ UNCHANGED <<pc2, run_config>>
    /\ UNCHANGED ToolVars
    /\ UNCHANGED <<script, current_file, steps, save_each_step,
                   save_each_step_var, step_vars, active_checkbox, failed>>
    /\ UNCHANGED StackVars

ProcVars ==
    <<current_file, steps, save_each_step, save_each_step_var, step_vars,
      process_button, active_checkbox>>

-----------------------------------------------------------------------------
(* Stackinator: the user interface thread and the worker thread *)

\* process_sequence: the Stack button is pressed while no worker is alive
process_sequence ==
    /\ script = "Stackinator"
    /\ pc = "idle"
    /\ stack_button = NORMAL
    /\ pc' = "start"
    /\ log' = <<>>
    /\ failed' = "none"
    /\ UNCHANGED <<pc2, run_config>>
    /\ UNCHANGED ToolVars
    /\ UNCHANGED <<script, close_button, status>>
    /\ UNCHANGED ProcVars
    /\ UNCHANGED StackVars

\* the user ticks or unticks "Enable Drizzle"; on_drizzle_change follows
on_drizzle_change ==
    /\ script = "Stackinator"
    /\ pc # "quit"
    /\ drizzle' = ~drizzle
    /\ kernel_combo' = IF drizzle' THEN NORMAL ELSE DISABLED
    /\ scale_combo' = IF drizzle' THEN NORMAL ELSE DISABLED
    /\ UNCHANGED <<pc2, run_config>>
    /\ UNCHANGED ToolVars
    /\ UNCHANGED <<script, pc, close_button, stack_button, status, log,
                   failed>>
    /\ UNCHANGED ProcVars

stack_runner_start ==
    /\ script = "Stackinator"
    /\ pc = "start"
    /\ close_button' = DISABLED
    /\ stack_button' = DISABLED
    /\ pc' = StackOrder[1]
    /\ UNCHANGED <<pc2, run_config>>
    /\ UNCHANGED ToolVars
    /\ UNCHANGED <<script, status, log, failed, drizzle, kernel_combo,
                   scale_combo>>
    /\ UNCHANGED ProcVars

stack_runner_step ==
    /\ script = "Stackinator"
    /\ pc \in StackNames
    /\ \E failAt \in 0..StackMethod(pc, Enter(pc, 0, "ndarray"), drizzle).calls :
       \E st \in {StackMethod(pc, Enter(pc, failAt, "ndarray"), drizzle)} :
          /\ status' = st.status
          /\ log' = st.log
          /\ failed' = IF st.raised THEN pc ELSE failed
          /\ pc' = IF st.raised THEN "finally" ELSE StackNextPc(pc)
    /\ UNCHANGED <<pc2, run_config>>
    /\ UNCHANGED ToolVars
    /\ UNCHANGED <<script, close_button>>
    /\ UNCHANGED ProcVars
    /\ UNCHANGED StackVars

stack_runner_finally ==
    /\ script = "Stackinator"
    /\ pc = "finally"
    /\ close_button' = NORMAL
    /\ stack_button' = NORMAL
    /\ status' = <<"Done">>
    /\ log' = Append(log, Ev("status", "status", <<"Done">>, "runner", TRUE))
    /\ pc' = "idle"
    /\ UNCHANGED <<pc2, run_config>>
    /\ UNCHANGED ToolVars
    /\ UNCHANGED <<script, failed, drizzle, kernel_combo, scale_combo>>
    /\ UNCHANGED ProcVars

-----------------------------------------------------------------------------
(* Specifications *)

\* the steps of the worker threads
Worker ==
    \/ runner_start
    \/ runner_step
    \/ runner_save_result
    \/ runner_finally
    \/ stack_runner_start
    \/ stack_runner_step
    \/ stack_runner_finally

\* the steps of the user
User ==
    \/ process
    \/ click_save_each_step
    \/ dispose
    \/ process_sequence
    \/ on_drizzle_change

Next == Worker \/ User

Spec == Init /\ [][Next]_vars

\* a worker thread that can take a step takes it: every call to the host
\* returns or raises
FairSpec == Spec /\ WF_vars(Worker)

-----------------------------------------------------------------------------
(* Processinator: a second press of Process while a worker is alive *)

\* A second worker is started only while the history of the run is
\* shorter than this.
MaxLogAtStart == 4

\* the checkboxes the race is followed with: no step, or unclip alone
RaceSelections == {{}, {"unclip"}}

RaceInit ==
    /\ Init
    /\ script = "Processinator"
    /\ {n \in StepNames : step_vars[n]} \in RaceSelections

\* process, called by a press of the Process button while a worker is
\* alive: Tk runs the command of a button whose state is NORMAL, and
\* process starts a thread without looking for a live one. The host has an
\* image loaded, the one the run in flight was started on or another.
process_again ==
    /\ script = "Processinator"
    /\ pc \notin {"idle", "quit"}
    /\ pc2 = "idle"
    /\ process_button = NORMAL
    /\ Len(log) < MaxLogAtStart
    /\ \E name \in {Some(f) : f \in Files} :
          current_file' = name
    /\ pc2' = "start"
    /\ UNCHANGED <<script, pc, log, steps, save_each_step, save_each_step_var,
                   step_vars, close_button, process_button, active_checkbox,
                   status, failed, run_config>>
    /\ UNCHANGED StackVars
    /\ UNCHANGED ToolVars

\* runner in the second thread, on the same object: up to the first step
runner2_start ==
    /\ script = "Processinator"
    /\ pc2 = "start"
    /\ close_button' = DISABLED
    /\ process_button' = DISABLED
    /\ steps' = <<>>
    /\ save_each_step' = Some(save_each_step_var)
    /\ active_checkbox' = IF active_checkbox # None
                          THEN unhighlight_step(active_checkbox,
                                                active_checkbox[1])
                          ELSE active_checkbox
    /\ pc2' = StepOrder[1]
    /\ UNCHANGED <<script, pc, current_file, save_each_step_var, step_vars,
                   status, log, failed, run_config>>
    /\ UNCHANGED StackVars
    /\ UNCHANGED ToolVars

\* runner in the second thread: the block of one step
runner2_step ==
    /\ script = "Processinator"
    /\ pc2 \in StepNames
    /\ IF step_enabled(pc2)
       THEN \E img \in (IF pc2 = "curves" THEN Imreads ELSE {"ndarray"}) :
            \E failAt \in 0..Calls(pc2, img) :
            \E st \in {Method(pc2, Enter(pc2, failAt, img))} :
               LET lit == highlight_step(active_checkbox, pc2)
               IN  /\ steps' = st.steps
                   /\ status' = st.status
                   /\ log' = st.log
                   /\ failed' = IF st.raised THEN pc2 ELSE failed
                   /\ active_checkbox' = IF st.raised THEN lit
                                         ELSE unhighlight_step(lit, pc2)
                   /\ pc2' = IF st.raised THEN "finally" ELSE NextPc(pc2)
       ELSE /\ pc2' = NextPc(pc2)
            /\ UNCHANGED <<steps, status, log, failed, active_checkbox>>
    /\ UNCHANGED <<script, pc, current_file, save_each_step,
                   save_each_step_var, step_vars, close_button,
                   process_button, run_config>>
    /\ UNCHANGED StackVars
    /\ UNCHANGED ToolVars

\* runner in the second thread: the final save
runner2_save_result ==
    /\ script = "Processinator"
    /\ pc2 = "save_result"
    /\ \E failAt \in 0..Calls(pc2, "ndarray") :
       \E st \in {Method(pc2, Enter(pc2, failAt, "ndarray"))} :
          /\ status' = st.status
          /\ log' = st.log
          /\ failed' = IF st.raised THEN pc2 ELSE failed
    /\ pc2' = "finally"
    /\ UNCHANGED <<script, pc, current_file, steps, save_each_step,
                   save_each_step_var, step_vars, close_button,
                   process_button, active_checkbox, run_config>>
    /\ UNCHANGED StackVars
    /\ UNCHANGED ToolVars

\* runner in the second thread: the finally block
runner2_finally ==
    /\ script = "Processinator"
    /\ pc2 = "finally"
    /\ close_button' = NORMAL
    /\ process_button' = NORMAL
    /\ status' = <<"Done">>
    /\ log' = Append(log, Ev("status", "status", <<"Done">>, "runner", TRUE))
    /\ pc2' = "idle"
    /\ UNCHANGED <<script, pc, current_file, steps, save_each_step,
                   save_each_step_var, step_vars, active_checkbox, failed,
                   run_config>>
    /\ UNCHANGED StackVars
    /\ UNCHANGED ToolVars

\* process, called while the first thread is not alive: when the second one
\* is, the host has an image loaded
process_first ==
    /\ process
    /\ pc2 # "idle" => current_file' # None

RaceNext ==
    \/ process_first
    \/ process_again
    \/ runner_start
    \/ runner_step
    \/ runner_save_result
    \/ runner_finally
    \/ runner2_start
    \/ runner2_step
    \/ runner2_save_result
    \/ runner2_finally

\* the user may press Process whenever the button lets them
RaceSpec == RaceInit /\ [][RaceNext]_vars

-----------------------------------------------------------------------------
(* Processinator: the step checkboxes are clicked while a run is in flight *)

\* the checkboxes the user clicks: the first step and the last one
ClickSteps == {"unclip", "sharpen"}

ClickInit ==
    /\ Init
    /\ script = "Processinator"
    /\ {n \in StepNames : step_vars[n]} \in SUBSET ClickSteps

\* the user ticks or unticks the checkbox of a step: the Checkbutton
\* writes the BooleanVar runner reads, and nothing disables it during a run
click_step ==
    /\ script = "Processinator"
    /\ pc # "quit"
    /\ \E n \in ClickSteps :
          step_vars' = [step_vars EXCEPT ![n] = ~step_vars[n]]
    /\ UNCHANGED <<script, pc, current_file, steps, save_each_step,
                   save_each_step_var, close_button, process_button,
                   active_checkbox, status, log, failed, pc2, run_config>>
    /\ UNCHANGED StackVars
    /\ UNCHANGED ToolVars

ClickNext ==
    \/ process
    \/ click_save_each_step
    \/ click_step
    \/ dispose
    \/ runner_start
    \/ runner_step
    \/ runner_save_result
    \/ runner_finally

ClickSpec == ClickInit /\ [][ClickNext]_vars

-----------------------------------------------------------------------------
(* Binary floating point, as the arithmetic of Python floats and of NumPy  *)
(* float32 arrays computes: every operation returns the exact result       *)
(* rounded to the nearest value of the format, ties to even.               *)
(* A natural number of any size is a little-endian sequence of limbs with  *)
(* no leading zero limb; a float is NaN, an infinity or neg, m, e standing *)
(* for (-1)^neg * m * 2^e with m odd or zero.                              *)

LimbBase == 2^14

\* Call(op, a) is the operator named op applied to the arguments a (it is
\* defined after the operators), and X_ is X applied through Call. The
\* operators apply each other as X_, so that the expression of a
\* specification holds each of them once per application it makes itself.
RECURSIVE Call(_, _)

BigCols_(c0) == Call("BigCols", <<c0>>)
BigMul_(a0, b0) == Call("BigMul", <<a0, b0>>)
BigDiv_(a, b) == Call("BigDiv", <<a, b>>)
Round_(f, neg, m, e) == Call("Round", <<f, neg, m, e>>)
FInt_(f, n) == Call("FInt", <<f, n>>)
FAdd_(f, x, y) == Call("FAdd", <<f, x, y>>)
FMul_(f, x, y) == Call("FMul", <<f, x, y>>)
FDiv_(f, x, y) == Call("FDiv", <<f, x, y>>)
FLess_(x, y) == Call("FLess", <<x, y>>)
FTrunc_(x) == Call("FTrunc", <<x>>)
pixelVal_(pix, r1, s1, r2, s2) == Call("pixelVal", <<pix, r1, s1, r2, s2>>)
Normalize_(img_float) == Call("Normalize", <<img_float>>)
ScaleBack_(f, adjusted, n) == Call("ScaleBack", <<f, adjusted, n>>)
np_power_(x, y) == Call("np_power", <<x, y>>)
curves_adjusted_(img_float) == Call("curves_adjusted", <<img_float>>)
img_8bit_(img) == Call("img_8bit", <<img>>)
convert_back_(original_dtype, adjusted, nan_as) ==
    Call("convert_back", <<original_dtype, adjusted, nan_as>>)
method_chain_(methods, method, img, params) ==
    Call("method_chain", <<methods, method, img, params>>)
adjust_contrast_(call, adjusted, nan_as) ==
    Call("adjust_contrast", <<call, adjusted, nan_as>>)

\* a without its leading zero limbs
BigNorm(a0) ==
    LET a == a0 \o <<>>
    IN  SubSeq(a, 1,
               IF \E i \in 1..Len(a) : a[i] # 0
               THEN CHOOSE i \in 1..Len(a) :
                       a[i] # 0 /\ \A j \in (i + 1)..Len(a) : a[j] = 0
               ELSE 0)

\* the natural number n < 2^31
BigOf(n) ==
    BigNorm(<<n % LimbBase, (n \div LimbBase) % LimbBase,
              n \div (LimbBase * LimbBase)>>)

Limb(a, i) == IF 1 <= i /\ i <= Len(a) THEN a[i] ELSE 0

\* a + b: limb i receives a carry when a lower limb overflows and every
\* limb between them passes the carry on
BigAdd(a, b) ==
    BigNorm([i \in 1..((IF Len(a) > Len(b) THEN Len(a) ELSE Len(b)) + 1)
               |-> (Limb(a, i) + Limb(b, i)
                    + (IF \E j \in 1..(i - 1) :
                             /\ Limb(a, j) + Limb(b, j) >= LimbBase
                             /\ \A k \in (j + 1)..(i - 1) :
                                   Limb(a, k) + Limb(b, k) >= LimbBase - 1
                       THEN 1 ELSE 0)) % LimbBase])

\* a - b for a >= b, the borrows found as the carries of BigAdd are
BigSub(a, b) ==
    BigNorm([i \in 1..Len(a)
               |-> (a[i] - Limb(b, i) + LimbBase
                    - (IF \E j \in 1..(i - 1) :
                             /\ a[j] < Limb(b, j)
                             /\ \A k \in (j + 1)..(i - 1) :
                                   a[k] <= Limb(b, k)
                       THEN 1 ELSE 0)) % LimbBase])

BigLess(a, b) ==
    \/ Len(a) < Len(b)
    \/ /\ Len(a) = Len(b)
       /\ \E i \in 1..Len(a) :
             /\ a[i] < b[i]
             /\ \A j \in (i + 1)..Len(a) : a[j] = b[j]

\* the number whose limb i is the column c[i] < 2^31
BigCols(c0) ==
    LET c == c0 \o <<>>
    IN  BigAdd(BigAdd([i \in 1..Len(c) |-> c[i] % LimbBase],
                      <<0>> \o [i \in 1..Len(c) |->
                                   (c[i] \div LimbBase) % LimbBase]),
               <<0, 0>> \o [i \in 1..Len(c) |->
                               c[i] \div (LimbBase * LimbBase)])

\* a * k for 0 <= k <= 2^16
BigMulSmall(a, k) == BigCols_([i \in 1..Len(a) |-> a[i] * k])

\* a * b for b of at most seven limbs: column i is the sum of the products
\* of the limbs whose places add up to it
BigMul7(a, b) ==
    IF a = <<>> \/ b = <<>> THEN <<>>
    ELSE BigCols_([i \in 1..(Len(a) + Len(b) - 1) |->
                     Limb(a, i) * Limb(b, 1)
                     + Limb(a, i - 1) * Limb(b, 2)
                     + Limb(a, i - 2) * Limb(b, 3)
                     + Limb(a, i - 3) * Limb(b, 4)
                     + Limb(a, i - 4) * Limb(b, 5)
                     + Limb(a, i - 5) * Limb(b, 6)
                     + Limb(a, i - 6) * Limb(b, 7)])

\* the limbs of b from limb i on, seven at most
Limbs7(b, i) ==
    IF i > Len(b) THEN <<>>
    ELSE BigNorm(SubSeq(b, i, IF i + 6 < Len(b) THEN i + 6 ELSE Len(b)))

\* a * b, seven limbs of the shorter factor at a time
BigMul(a0, b0) ==
    LET a == IF Len(a0) < Len(b0) THEN b0 ELSE a0
        b == IF Len(a0) < Len(b0) THEN a0 ELSE b0
        RECURSIVE From(_)
        From(i) ==
            IF i + 7 > Len(b) THEN BigMul7(a, Limbs7(b, i))
            ELSE BigAdd(BigMul7(a, Limbs7(b, i)),
                        [j \in 1..7 |-> 0] \o From(i + 7))
    IN  From(1)

\* the number of bits of a
BigBits(a) ==
    IF a = <<>> THEN 0
    ELSE 14 * (Len(a) - 1)
         + (CHOOSE k \in 1..14 : 2^(k - 1) <= a[Len(a)] /\ a[Len(a)] < 2^k)

\* a * 2^k
BigShl(a, k) ==
    IF a = <<>> THEN <<>>
    ELSE [i \in 1..(k \div 14) |-> 0] \o BigMulSmall(a, 2^(k % 14))

\* the integer part of a / 2^k
BigShr(a, k) ==
    IF k \div 14 >= Len(a) THEN <<>>
    ELSE BigNorm([i \in 1..(Len(a) - (k \div 14)) |->
                    (Limb(a, i + (k \div 14)) \div 2^(k % 14))
                    + (Limb(a, i + (k \div 14) + 1) % 2^(k % 14))
                          * 2^(14 - (k % 14))])

\* a < 2^31 as a number
BigToInt(a) ==
    Limb(a, 1) + LimbBase * Limb(a, 2) + LimbBase * LimbBase * Limb(a, 3)

\* quotient and remainder of a by d, 0 < d < 2^24, by long division over the
\* digits of a in base 2^7: Quot(r, lo, n) divides by d the number made of
\* r < d followed by the n digits of a from digit lo up
BigDivSmall(a, d) ==
    LET Digit(i) == (a[(i + 1) \div 2] \div (IF i % 2 = 1 THEN 1 ELSE 128))
                        % 128
        RECURSIVE Quot(_, _, _)
        Quot(r, lo, n) ==
            IF n = 0 THEN [q |-> <<>>, r |-> r]
            ELSE IF n = 1
            THEN [q |-> <<(r * 128 + Digit(lo)) \div d>>,
                  r |-> (r * 128 + Digit(lo)) % d]
            ELSE LET hi == Quot(r, lo + (n \div 2), n - (n \div 2))
                     low == Quot(hi.r, lo, n \div 2)
                 IN  IF hi.r < d THEN [q |-> low.q \o hi.q, r |-> low.r]
                     ELSE hi
        t == Quot(0, 1, 2 * Len(a))
    IN  [q |-> BigNorm([i \in 1..Len(a) |->
                          t.q[2 * i - 1] + 128 * t.q[2 * i]]),
         r |-> BigOf(t.r)]

\* quotient and remainder of a by b # 0: Quot(r, lo, n) divides by b the
\* number made of r < b followed by the n bits of a from bit lo up
BigDiv(a, b) ==
    LET Bit(i) == (a[((i - 1) \div 14) + 1] \div 2^((i - 1) % 14)) % 2
        RECURSIVE Quot(_, _, _)
        Quot(r, lo, n) ==
            IF n = 0 THEN [q |-> <<>>, r |-> r]
            ELSE IF n = 1
            THEN LET t == BigAdd(BigMulSmall(r, 2), BigNorm(<<Bit(lo)>>))
                 IN  IF BigLess(t, b) THEN [q |-> <<>>, r |-> t]
                     ELSE [q |-> <<1>>, r |-> BigSub(t, b)]
            ELSE LET hi == Quot(r, lo + (n \div 2), n - (n \div 2))
                     low == Quot(hi.r, lo, n \div 2)
                 IN  IF BigLess(hi.r, b)
                     THEN [q |-> BigAdd(BigShl(hi.q, n \div 2), low.q),
                           r |-> low.r]
                     ELSE hi
    IN  Quot(<<>>, 1, BigBits(a))

\* the integer part s of the square root of a < 2^54, and whether a = s * s,
\* two bits of a at a time from the top: Run(st, hi, n) brings the n pairs
\* of bits from pair hi down into the root st.s and the remainder st.r
BigSqrt(a) ==
    LET Pair(j) == (a[((2 * j) \div 14) + 1] \div 2^((2 * j) % 14)) % 4
        Step(st, j) ==
            IF 4 * st.r + Pair(j) >= 4 * st.s + 1
            THEN [s |-> 2 * st.s + 1,
                  r |-> 4 * st.r + Pair(j) - (4 * st.s + 1)]
            ELSE [s |-> 2 * st.s, r |-> 4 * st.r + Pair(j)]
        RECURSIVE Run(_, _, _)
        Run(st, hi, n) ==
            IF n = 0 THEN st
            ELSE IF n = 1 THEN Step(st, hi)
            ELSE LET m == Run(st, hi, n \div 2)
                 IN  IF m.r <= 2 * m.s
                     THEN Run(m, hi - (n \div 2), n - (n \div 2))
                     ELSE m
        t == Run([s |-> 0, r |-> 0], 7 * Len(a) - 1, 7 * Len(a))
    IN  [s |-> BigOf(t.s), exact |-> t.r = 0]

RECURSIVE BigPow(_, _)
BigPow(a, n) ==
    IF n = 0 THEN <<1>>
    ELSE IF n % 2 = 1 THEN BigMul_(a, BigPow(a, n - 1))
    ELSE LET h == BigPow(a, n \div 2) IN BigMul_(h, h)

\* the formats: bits of precision, 2^emax is the least power of two out of
\* range, 2^qmin is the least positive value
Binary64 == [p |-> 53, emax |-> 1024, qmin |-> -1074]
Binary32 == [p |-> 24, emax |-> 128, qmin |-> -149]
\* no rounding: for comparisons
Exact == [p |-> 100000, emax |-> 100000, qmin |-> -100000]
\* for intermediate results
Wide == [p |-> 80, emax |-> 100000, qmin |-> -100000]

NaN == [k |-> "nan", neg |-> FALSE, m |-> <<>>, e |-> 0]
Inf(neg) == [k |-> "inf", neg |-> neg, m |-> <<>>, e |-> 0]
Zero == [k |-> "fin", neg |-> FALSE, m |-> <<>>, e |-> 0]

\* (-1)^neg * m * 2^e with the factors of two moved from m to e
Canon(neg, m0, e) ==
    LET m == BigNorm(m0)
        z == CHOOSE k \in 0..(14 * Len(m)) :
                /\ \A i \in 1..(k \div 14) : m[i] = 0
                /\ m[(k \div 14) + 1] % 2^(k % 14) = 0
                /\ m[(k \div 14) + 1] % 2^((k % 14) + 1) # 0
    IN  IF m = <<>> THEN Zero
        ELSE [k |-> "fin", neg |-> neg, m |-> BigShr(m, z), e |-> e + z]

\* (-1)^neg * m * 2^e rounded to the format f
Round(f, neg, m, e) ==
    IF m = <<>> THEN Zero
    ELSE LET top == BigBits(m) + e
             q == IF top - f.p > f.qmin THEN top - f.p ELSE f.qmin
             t == BigShr(m, q - e)
             rem == BigSub(m, BigShl(t, q - e))
             half == BigShl(<<1>>, q - e - 1)
             up == \/ BigLess(half, rem)
                   \/ rem = half /\ t # <<>> /\ t[1] % 2 = 1
             r == IF up THEN BigAdd(t, <<1>>) ELSE t
         IN  IF q <= e
             THEN IF top > f.emax THEN Inf(neg) ELSE Canon(neg, m, e)
             ELSE IF BigBits(r) + q > f.emax THEN Inf(neg)
             ELSE Canon(neg, r, q)

\* the integer n, |n| < 2^31, as a float of format f
FInt(f, n) == Round_(f, n < 0, BigOf(IF n < 0 THEN -n ELSE n), 0)

FNeg(x) == IF x.k = "nan" \/ x = Zero THEN x ELSE [x EXCEPT !.neg = ~x.neg]

FAdd(f, x, y) ==
    IF x.k = "nan" \/ y.k = "nan" THEN NaN
    ELSE IF x.k = "inf"
    THEN IF y.k = "inf" /\ y.neg # x.neg THEN NaN ELSE x
    ELSE IF y.k = "inf" THEN y
    ELSE LET e == IF x.e < y.e THEN x.e ELSE y.e
             a == BigShl(x.m, x.e - e)
             b == BigShl(y.m, y.e - e)
         IN  IF x.neg = y.neg THEN Round_(f, x.neg, BigAdd(a, b), e)
             ELSE IF BigLess(a, b) THEN Round_(f, y.neg, BigSub(b, a), e)
             ELSE Round_(f, x.neg, BigSub(a, b), e)

FSub(f, x, y) == FAdd_(f, x, FNeg(y))

FMul(f, x, y) ==
    IF x.k = "nan" \/ y.k = "nan" THEN NaN
    ELSE IF x.k = "inf" \/ y.k = "inf"
    THEN IF x = Zero \/ y = Zero THEN NaN ELSE Inf(x.neg # y.neg)
    ELSE Round_(f, x.neg # y.neg, BigMul_(x.m, y.m), x.e + y.e)

\* x / y: the quotient of the significands to two bits more than the
\* format has, and a last bit that tells whether a remainder is left
FDiv(f, x, y) ==
    IF x.k = "nan" \/ y.k = "nan" THEN NaN
    ELSE IF x.k = "inf"
    THEN IF y.k = "inf" THEN NaN ELSE Inf(x.neg # y.neg)
    ELSE IF y.k = "inf" THEN Zero
    ELSE IF y = Zero THEN IF x = Zero THEN NaN ELSE Inf(x.neg)
    ELSE IF x = Zero THEN Zero
    ELSE LET k == IF f.p + 2 + BigBits(y.m) > BigBits(x.m)
                  THEN f.p + 2 + BigBits(y.m) - BigBits(x.m)
                  ELSE 0
             d == IF BigBits(y.m) <= 24
                  THEN BigDivSmall(BigShl(x.m, k), BigToInt(y.m))
                  ELSE BigDiv_(BigShl(x.m, k), y.m)
         IN  IF d.r = <<>>
             THEN Round_(f, x.neg # y.neg, BigMulSmall(d.q, 2),
                         x.e - y.e - k - 1)
             ELSE Round_(f, x.neg # y.neg,
                         BigAdd(BigMulSmall(d.q, 2), <<1>>),
                         x.e - y.e - k - 1)

\* the square root of x, for a format of at most 25 bits of precision
FSqrt(f, x) ==
    IF x.k = "nan" \/ (x.neg /\ x # Zero) THEN NaN
    ELSE IF x.k = "inf" \/ x = Zero THEN x
    ELSE LET k == IF 2 * (f.p + 2) > BigBits(x.m)
                  THEN 2 * (f.p + 2) - BigBits(x.m)
                       + ((x.e - BigBits(x.m)) % 2)
                  ELSE x.e % 2
             t == BigSqrt(BigShl(x.m, k))
         IN  IF t.exact
             THEN Round_(f, FALSE, BigMulSmall(t.s, 2),
                         ((x.e - k) \div 2) - 1)
             ELSE Round_(f, FALSE, BigAdd(BigMulSmall(t.s, 2), <<1>>),
                         ((x.e - k) \div 2) - 1)

\* x < y
FLess(x, y) ==
    /\ x.k # "nan" /\ y.k # "nan" /\ x # y
    /\ IF x.k = "inf" THEN x.neg
       ELSE IF y.k = "inf" THEN ~y.neg
       ELSE FAdd_(Exact, x, FNeg(y)).neg

\* x ** n for a natural number n
FPow(f, x, n) ==
    IF x.k = "nan" THEN IF n = 0 THEN FInt_(f, 1) ELSE NaN
    ELSE IF x.k = "inf"
    THEN IF n = 0 THEN FInt_(f, 1) ELSE Inf(x.neg /\ n % 2 = 1)
    ELSE Round_(f, x.neg /\ n % 2 = 1, BigPow(x.m, n), x.e * n)

\* e ** x to the nearest value of a format no wider than binary32: with
\* r = x / 2^12, the sum of r^k / k! for k up to 12, squared twelve times
\* (12! = 691200 * 693)
FExp(f, x) ==
    IF x.k = "nan" THEN NaN
    ELSE IF x.k = "inf" THEN IF x.neg THEN Zero ELSE x
    ELSE IF x = Zero THEN FInt_(f, 1)
    ELSE IF BigBits(x.m) + x.e > 8
    THEN IF x.neg THEN Zero ELSE Inf(FALSE)
    ELSE LET r == [x EXCEPT !.e = @ - 12]
             \* 12! / k!
             C(k) == <<479001600, 479001600, 239500800, 79833600,
                       19958400, 3991680, 665280, 95040, 11880, 1320,
                       132, 12, 1>>[k + 1]
             \* the sum s of the terms above k taken n terms further
             \* down: C(k) + r * s, and so on
             RECURSIVE Horner(_, _, _)
             Horner(s, k, n) ==
                 IF n = 0 THEN s
                 ELSE IF n = 1
                 THEN FAdd_(Wide, FInt_(Wide, C(k)), FMul_(Wide, r, s))
                 ELSE LET m == Horner(s, k, n \div 2)
                      IN  IF m.k = "fin"
                          THEN Horner(m, k - (n \div 2), n - (n \div 2))
                          ELSE m
             \* y squared n times
             RECURSIVE Squared(_, _)
             Squared(y, n) ==
                 IF n = 0 THEN y
                 ELSE IF n = 1 THEN FMul_(Wide, y, y)
                 ELSE LET m == Squared(y, n \div 2)
                      IN  IF m.k = "fin" THEN Squared(m, n - (n \div 2))
                          ELSE m
             sum == Horner(FInt_(Wide, 1), 11, 12)
             y == IF sum.k = "fin"
                  THEN Squared(FDiv_(Wide, FDiv_(Wide, sum,
                                                 FInt_(Wide, 691200)),
                                     FInt_(Wide, 693)), 12)
                  ELSE sum
         IN  Round_(f, FALSE, y.m, y.e)

\* the integer part of a finite x with |x| < 2^31
FTrunc(x) ==
    LET a == IF x.e >= 0 THEN BigShl(x.m, x.e) ELSE BigShr(x.m, -x.e)
    IN  IF x.neg THEN -BigToInt(a) ELSE BigToInt(a)

-----------------------------------------------------------------------------
(* tests/test-curves.py: the three-segment mapping pixelVal                *)

\* The images given to a tool have at most MaxSamples samples.
MaxSamples == 2

MAX_VALUE == 255

\* the variables of the user interface, which the tools do not have
GuiVars ==
    <<script, pc, current_file, steps, save_each_step, save_each_step_var,
      step_vars, close_button, process_button, stack_button,
      active_checkbox, status, log, failed, drizzle, kernel_combo,
      scale_combo, pc2, run_config>>

NoGui == Created /\ step_vars = [n \in StepNames |-> n \in DefaultSteps]

\* what a call returns: a value, or the exception it ends with
Returned(v) == [raised |-> "", val |-> v]
Raised(exception) == [raised |-> exception, val |-> NaN]

\* a mapping whose middle segment starts at the origin
pixelVal_no_offset(pix, r1, s1, r2, s2) ==
    IF 0 <= pix /\ pix <= r1
    THEN IF r1 = 0 THEN Raised("ZeroDivisionError")
         ELSE Returned(FMul_(Binary64,
                             FDiv_(Binary64, FInt_(Binary64, s1),
                                   FInt_(Binary64, r1)),
                             FInt_(Binary64, pix)))
    ELSE IF r1 < pix /\ pix <= r2
    THEN IF r2 - r1 = 0 THEN Raised("ZeroDivisionError")
         ELSE Returned(FMul_(Binary64,
                             FDiv_(Binary64, FInt_(Binary64, s2 - s1),
                                   FInt_(Binary64, r2 - r1)),
                             FInt_(Binary64, pix - r1)))
    ELSE IF MAX_VALUE - r2 = 0 THEN Raised("ZeroDivisionError")
         ELSE Returned(FAdd_(Binary64,
                             FMul_(Binary64,
                                   FDiv_(Binary64,
                                         FInt_(Binary64, MAX_VALUE - s2),
                                         FInt_(Binary64, MAX_VALUE - r2)),
                                   FInt_(Binary64, pix - r2)),
                             FInt_(Binary64, s2)))

\* pixelVal on Python numbers: / is the division of floats and raises
\* ZeroDivisionError on a zero divisor
pixelVal(pix, r1, s1, r2, s2) ==
    IF 0 <= pix /\ pix <= r1
    THEN IF r1 = 0 THEN Raised("ZeroDivisionError")
         ELSE Returned(FMul_(Binary64,
                             FDiv_(Binary64, FInt_(Binary64, s1),
                                   FInt_(Binary64, r1)),
                             FInt_(Binary64, pix)))
    ELSE IF r1 < pix /\ pix <= r2
    THEN IF r2 - r1 = 0 THEN Raised("ZeroDivisionError")
         ELSE Returned(FAdd_(Binary64,
                             FMul_(Binary64,
                                   FDiv_(Binary64, FInt_(Binary64, s2 - s1),
                                         FInt_(Binary64, r2 - r1)),
                                   FInt_(Binary64, pix - r1)),
                             FInt_(Binary64, s1)))
    ELSE IF MAX_VALUE - r2 = 0 THEN Raised("ZeroDivisionError")
         ELSE Returned(FAdd_(Binary64,
                             FMul_(Binary64,
                                   FDiv_(Binary64,
                                         FInt_(Binary64, MAX_VALUE - s2),
                                         FInt_(Binary64, MAX_VALUE - r2)),
                                   FInt_(Binary64, pix - r2)),
                             FInt_(Binary64, s2)))

\* the samples of the 8-bit images the script is followed on, and the
\* images: cv2.imread without a flag returns 8-bit samples
PixelSamples == {0, 7, 70, 140, 255}

PixelImages ==
    UNION {[1..n -> PixelSamples] : n \in 1..MaxSamples}

\* the breakpoints r1, s1, r2, s2 the script is followed with
Breakpoints ==
    {[r1 |-> r1, s1 |-> s1, r2 |-> r2, s2 |-> s2] :
        r1 \in {0, 7, 70}, s1 \in {0, 29}, r2 \in {7, 70, 140},
        s2 \in {29, 255}}

\* the script has read its image and is about to map it
PixelValInit ==
    /\ script = "test-curves"
    /\ NoGui
    /\ \E img \in PixelImages, b \in Breakpoints :
          tool = Some([img |-> img, r1 |-> b.r1, s1 |-> b.s1, r2 |-> b.r2,
                       s2 |-> b.s2])
    /\ tool_pc = "vectorize"
    /\ tool_out = [vals |-> <<>>, max_v |-> 0]

\* np.vectorize(pixelVal)(img, r1, s1, r2, s2) calls pixelVal on the
\* samples one after the other, each with the Python numbers of the
\* arguments; an exception ends the script.  (The call numpy makes first on
\* the first sample, to find the type of the output, is on numpy numbers,
\* raises nothing, and leaves in max_v what the first call of the loop
\* leaves there.)
pixelVal_vec ==
    /\ tool_pc = "vectorize"
    /\ Len(tool_out.vals) < Len(tool[1].img)
    /\ LET t == tool[1]
           pix == t.img[Len(tool_out.vals) + 1]
           max_v == IF pix > tool_out.max_v THEN pix ELSE tool_out.max_v
       IN  \E r \in {pixelVal_(pix, t.r1, t.s1, t.r2, t.s2)} :
              IF r.raised # ""
              THEN /\ tool_pc' = r.raised
                   /\ tool_out' = [tool_out EXCEPT !.max_v = max_v]
              ELSE /\ tool_pc' = tool_pc
                   /\ tool_out' = [vals |-> Append(tool_out.vals, r.val),
                                   max_v |-> max_v]
    /\ UNCHANGED tool
    /\ UNCHANGED GuiVars

\* the rest of the script: print max_v, show the two images
pixelVal_show ==
    /\ tool_pc = "vectorize"
    /\ Len(tool_out.vals) = Len(tool[1].img)
    /\ tool_pc' = "done"
    /\ UNCHANGED <<tool, tool_out>>
    /\ UNCHANGED GuiVars

PixelValNext == pixelVal_vec \/ pixelVal_show

PixelValSpec == PixelValInit /\ [][PixelValNext]_vars

-----------------------------------------------------------------------------
(* contrast.py, tests/contrast.py: adjust_contrast; Processinator.curves:  *)
(* the arithmetic on the samples.                                          *)
(* An array is its dtype, its shape and its samples in C order, each       *)
(* sample the float of its value.                                          *)

\* n * 2^e
Dyadic(n, e) == Canon(n < 0, BigOf(IF n < 0 THEN -n ELSE n), e)

\* 1.0 and 0.5
One == [k |-> "fin", neg |-> FALSE, m |-> <<1>>, e |-> 0]
Half == [k |-> "fin", neg |-> FALSE, m |-> <<1>>, e |-> -1]

\* the largest value of an unsigned dtype
DtypeMax(dtype) == IF dtype = "uint8" THEN 255 ELSE 65535

\* x as a value of the format f
AsType(f, x) == IF x.k = "fin" THEN Round_(f, x.neg, x.m, x.e) ELSE x

\* np.min, np.max
np_min(data) ==
    CHOOSE x \in {data[i] : i \in DOMAIN data} :
        \A i \in DOMAIN data : ~FLess_(data[i], x)

np_max(data) ==
    CHOOSE x \in {data[i] : i \in DOMAIN data} :
        \A i \in DOMAIN data : ~FLess_(x, data[i])

\* np.clip
np_clip(x, lo, hi) ==
    IF x.k = "nan" THEN x
    ELSE IF FLess_(x, lo) THEN lo
    ELSE IF FLess_(hi, x) THEN hi
    ELSE x

\* "Normalize to 0-1 range" of img_float: min_val, max_val, the float32
\* max_val - min_val, and normalized
Normalize(img_float) ==
    LET lo == np_min(img_float)
        hi == np_max(img_float)
    IN  [min_val |-> lo, max_val |-> hi,
         range |-> FSub(Binary32, hi, lo),
         normalized |->
             IF FLess_(lo, hi)
             THEN [i \in DOMAIN img_float |->
                      FDiv_(Binary32, FSub(Binary32, img_float[i], lo),
                            FSub(Binary32, hi, lo))] \o <<>>
             ELSE img_float]

\* "Scale back to original range": adjusted * (max_val - min_val) + min_val
\* in the format f of adjusted
ScaleBack(f, adjusted, n) ==
    [i \in DOMAIN adjusted |->
        FAdd_(f, FMul_(f, adjusted[i], n.range), n.min_val)] \o <<>>

\* the linear method without the "+ 0.5" that re-centres the samples
linear_not_recentred(img_float, params) ==
    LET n == Normalize_(img_float)
        p == IF params = None THEN [alpha |-> Dyadic(3, -1), beta |-> Zero]
             ELSE params[1]
    IN  ScaleBack_(Binary32,
                   [i \in DOMAIN img_float |->
                       np_clip(FAdd_(Binary32,
                                     FMul_(Binary32, p.alpha,
                                           FSub(Binary32, n.normalized[i],
                                                Half)),
                                     p.beta),
                               Zero, One)] \o <<>>,
                   n)

\* method == 'linear'
linear(img_float, params) ==
    LET n == Normalize_(img_float)
        p == IF params = None THEN [alpha |-> Dyadic(3, -1), beta |-> Zero]
             ELSE params[1]
    IN  ScaleBack_(Binary32,
                   [i \in DOMAIN img_float |->
                       np_clip(FAdd_(Binary32,
                                     FAdd_(Binary32,
                                           FMul_(Binary32, p.alpha,
                                                 FSub(Binary32, n.normalized[i],
                                                      Half)),
                                           Half),
                                     p.beta),
                               Zero, One)] \o <<>>,
                   n)

\* method == 'sigmoid'
sigmoid(img_float, params) ==
    LET n == Normalize_(img_float)
        p == IF params = None THEN [gain |-> Dyadic(5, 0), cutoff |-> Half]
             ELSE params[1]
    IN  ScaleBack_(Binary32,
                   [i \in DOMAIN img_float |->
                       FDiv_(Binary32, One,
                             FAdd_(Binary32, One,
                                   FExp(Binary32,
                                        FMul_(Binary32, FNeg(p.gain),
                                              FSub(Binary32, n.normalized[i],
                                                   p.cutoff)))))] \o <<>>,
                   n)

\* np.power(x, y) for y = 0.5 and for a natural number y
np_power(x, y) ==
    IF y = Half THEN FSqrt(Binary32, x) ELSE FPow(Binary32, x, FTrunc_(y))

\* method == 'gamma'
gamma(img_float, params) ==
    LET n == Normalize_(img_float)
        p == IF params = None THEN [gamma |-> Half] ELSE params[1]
    IN  ScaleBack_(Binary32,
                   [i \in DOMAIN img_float |->
                       np_power_(n.normalized[i], p.gamma)] \o <<>>,
                   n)

\* CubicSpline(x_points, y_points)(x) for the default control points (0, 0),
\* (0.25, 0.15), (0.5, 0.5), (0.75, 0.85), (1, 1): the first two and the
\* last two intervals of a not-a-knot spline share a cubic, and these
\* points are symmetric about (0.5, 0.5), so the spline is the one cubic
\* 0.5 + (23/15) u - (32/15) u^3 of u = x - 0.5, extrapolated outside [0, 1]
cs_default(x) ==
    LET u == FSub(Binary64, x, Half)
    IN  FAdd_(Binary64, Half,
              FMul_(Binary64, u,
                    FSub(Binary64,
                         FDiv_(Binary64,
                               FInt_(Binary64, 23), FInt_(Binary64, 15)),
                         FMul_(Binary64,
                               FDiv_(Binary64, FInt_(Binary64, 32),
                                     FInt_(Binary64, 15)),
                               FMul_(Binary64, u, u)))))

\* method == 'cubic_spline', with the default control points
cubic_spline(img_float, params) ==
    LET n == Normalize_(img_float)
    IN  ScaleBack_(Binary64,
                   [i \in DOMAIN img_float |->
                       np_clip(cs_default(n.normalized[i]), Zero, One)]
                       \o <<>>,
                   n)

\* CubicSpline(x_points, y_points)(x) for the control points of
\* Processinator.curves, (0, 0), (0.07, 0.015), (0.6, 0.75), (1, 1): with
\* four points the not-a-knot spline is the cubic through them,
\* x (-3587/92008 + x (1052285/276024 - (191375/69006) x))
cs_curves(x) ==
    FMul_(Binary64, x,
          FAdd_(Binary64,
                FDiv_(Binary64,
                      FInt_(Binary64, -3587), FInt_(Binary64, 92008)),
                FMul_(Binary64, x,
                      FSub(Binary64,
                           FDiv_(Binary64, FInt_(Binary64, 1052285),
                                 FInt_(Binary64, 276024)),
                           FMul_(Binary64,
                                 FDiv_(Binary64, FInt_(Binary64, 191375),
                                       FInt_(Binary64, 69006)),
                                 x)))))

\* Processinator.curves, from "Normalize to 0-1 range" to "Scale back to
\* original range"
curves_adjusted(img_float) ==
    LET n == Normalize_(img_float)
    IN  ScaleBack_(Binary64,
                   [i \in DOMAIN img_float |->
                       np_clip(cs_curves(n.normalized[i]), Zero, One)]
                       \o <<>>,
                   n)

\* cvRound: the nearest integer, ties to even
cvRound(x) ==
    FTrunc_(AsType([p |-> 100000, emax |-> 100000, qmin |-> 0], x))

\* saturate_cast to the unsigned dtype
saturate_cast(dtype, n) ==
    IF n < 0 THEN 0 ELSE IF n > DtypeMax(dtype) THEN DtypeMax(dtype) ELSE n

\* cv2.normalize(img, None, 0, 255, cv2.NORM_MINMAX).astype(np.uint8): the
\* scale and the shift are doubles, every sample is scaled in float32 and
\* stored in the dtype of img, and astype keeps the low eight bits of the
\* integer part
img_8bit(img) ==
    LET smin == np_min(img.data)
        smax == np_max(img.data)
        scale == IF FLess_(smin, smax)
                 THEN FMul_(Binary64, FInt_(Binary64, 255),
                            FDiv_(Binary64, One, FSub(Binary64, smax, smin)))
                 ELSE Zero
        shift == FNeg(FMul_(Binary64, smin, scale))
        scaled(i) == FAdd_(Binary32,
                           FMul_(Binary32, img.data[i],
                                 AsType(Binary32, scale)),
                           AsType(Binary32, shift))
    IN  [i \in DOMAIN img.data |->
            IF img.dtype = "float32" THEN FTrunc_(scaled(i)) % 256
            ELSE saturate_cast(img.dtype, cvRound(scaled(i))) % 256] \o <<>>

\* cv2.equalizeHist of 8-bit samples: the lookup table of the cumulated
\* histogram, the least value present mapped to 0
cv2_equalizeHist(src) ==
    LET first == CHOOSE v \in {src[j] : j \in DOMAIN src} :
                    \A j \in DOMAIN src : v <= src[j]
        hist == Cardinality({j \in DOMAIN src : src[j] = first})
    IN  IF hist = Len(src) THEN src
        ELSE [i \in DOMAIN src |->
                IF src[i] = first THEN 0
                ELSE saturate_cast("uint8",
                         cvRound(FMul_(Binary32,
                             FInt_(Binary32,
                                   Cardinality({j \in DOMAIN src :
                                       first < src[j] /\ src[j] <= src[i]})),
                             FDiv_(Binary32, FInt_(Binary32, 255),
                                   FInt_(Binary32, Len(src) - hist)))))]
             \o <<>>

\* cv2.cvtColor(..., cv2.COLOR_BGR2YCrCb) of one 8-bit pixel, in OpenCV's
\* fixed-point arithmetic
BGR2YCrCb(b, g, r) ==
    LET y == (b * 1868 + g * 9617 + r * 4899 + 8192) \div 16384
    IN  <<y,
          saturate_cast("uint8",
              ((r - y) * 11682 + 128 * 16384 + 8192) \div 16384),
          saturate_cast("uint8",
              ((b - y) * 9241 + 128 * 16384 + 8192) \div 16384)>>

\* cv2.cvtColor(..., cv2.COLOR_YCrCb2BGR) of one 8-bit pixel
YCrCb2BGR(y, cr, cb) ==
    <<saturate_cast("uint8", y + ((cb - 128) * 29049 + 8192) \div 16384),
      saturate_cast("uint8",
          y + ((cb - 128) * (-5636) + (cr - 128) * (-11698) + 8192)
                  \div 16384),
      saturate_cast("uint8", y + ((cr - 128) * 22987 + 8192) \div 16384)>>

\* method == 'equalize': the shape and the samples of adjusted.  cvtColor
\* takes the first three channels of a pixel and returns three channels
equalize(img) ==
    LET u8 == img_8bit_(img)
        min_val == np_min(img.data)
        range == FSub(Binary32, np_max(img.data), np_min(img.data))
        \* / 255.0 * (img.max() - img.min()) + img.min()
        back(a) == FAdd_(Binary32,
                         FMul_(Binary32,
                               FDiv_(Binary32, FInt_(Binary32, a),
                                     FInt_(Binary32, 255)),
                               range),
                         min_val)
        channels == img.shape[3]
        ycrcb == [j \in 1..(Len(u8) \div channels) |->
                     BGR2YCrCb(u8[(j - 1) * channels + 1],
                               u8[(j - 1) * channels + 2],
                               u8[(j - 1) * channels + 3])] \o <<>>
        y == cv2_equalizeHist([j \in DOMAIN ycrcb |-> ycrcb[j][1]] \o <<>>)
        bgr(j) == YCrCb2BGR(y[j], ycrcb[j][2], ycrcb[j][3])
        eq == cv2_equalizeHist(u8)
    IN  IF Len(img.shape) = 2 \/ img.shape[3] = 1
        THEN [shape |-> img.shape,
              data |-> [i \in DOMAIN eq |-> back(eq[i])] \o <<>>]
        ELSE [shape |-> <<img.shape[1], img.shape[2], 3>>,
              data |-> [i \in 1..(3 * Len(y)) |->
                           back(bgr(((i - 1) \div 3) + 1)[((i - 1) % 3) + 1])]
                       \o <<>>]

\* a conversion back that leaves the samples in float32
convert_back_forgotten(original_dtype, adjusted, nan_as) ==
    [dtype |-> "float32", shape |-> adjusted.shape,
     data |-> [i \in DOMAIN adjusted.data |->
                  AsType(Binary32, adjusted.data[i])] \o <<>>]

\* "Convert back to original data type".  The conversion of a NaN to an
\* integer is undefined in C: nan_as is the value that the build stores
convert_back(original_dtype, adjusted, nan_as) ==
    LET clipped(i) == np_clip(adjusted.data[i], Zero,
                              FInt_(Binary32, DtypeMax(original_dtype)))
    IN  [dtype |-> original_dtype, shape |-> adjusted.shape,
         data |->
            [i \in DOMAIN adjusted.data |->
                IF original_dtype \in {"uint8", "uint16"}
                THEN IF clipped(i).k = "nan" THEN FInt_(Binary32, nan_as)
                     ELSE FInt_(Binary32, FTrunc_(clipped(i)))
                ELSE AsType(Binary32, adjusted.data[i])] \o <<>>]

\* the methods of adjust_contrast in contrast.py and in tests/contrast.py
Methods(program) ==
    IF program = "tests/contrast"
    THEN {"linear", "sigmoid", "gamma", "equalize", "cubic_spline"}
    ELSE {"linear", "sigmoid", "gamma", "equalize"}

\* the branch of a method: the shape and the samples of adjusted
method_branch(method, img, params) ==
    IF method = "equalize" THEN equalize(img)
    ELSE [shape |-> img.shape,
          data |-> CASE method = "linear" -> linear(img.data, params)
                     [] method = "sigmoid" -> sigmoid(img.data, params)
                     [] method = "gamma" -> gamma(img.data, params)
                     [] method = "cubic_spline" ->
                            cubic_spline(img.data, params)]

\* an if / elif chain over the methods whose else leaves the image as it is
method_chain_without_else(methods, method, img, params) ==
    IF method \in methods THEN Some(method_branch(method, img, params))
    ELSE Some([shape |-> img.shape, data |-> img.data])

\* the if / elif chain over method: None stands for the ValueError of its
\* else
method_chain(methods, method, img, params) ==
    IF method \in methods THEN Some(method_branch(method, img, params))
    ELSE None

\* what a call has done when it ends
Outcome(raised, message, events, written, returned) ==
    [raised |-> raised, message |-> message, events |-> events,
     written |-> written, returned |-> returned]

\* a default output path that is the input path
default_output_path_in_place(image_path) ==
    PathJoin(PathParent(image_path),
             PathStem(image_path) \o PathSuffix(image_path))

\* input_path.parent / f"{input_path.stem}_contrast{input_path.suffix}"
default_output_path(image_path) ==
    PathJoin(PathParent(image_path),
             PathStem(image_path) \o <<"_contrast">>
                 \o PathSuffix(image_path))

\* adjust_contrast(image_path, method, params, output_path) where
\* cv2.imread returns call.img and the if / elif chain over method leaves
\* adjusted
adjust_contrast(call, adjusted, nan_as) ==
    LET output_path ==
            IF call.output_path = None
            THEN default_output_path(call.image_path)
            ELSE call.output_path[1]
    IN  IF call.img = None
        THEN Outcome("ValueError",
                     <<"Could not read image from ">> \o call.image_path,
                     <<"imread">>, <<>>, None)
        ELSE IF adjusted = None
        THEN Outcome("ValueError",
                     <<"Unknown contrast adjustment method: ", call.method>>,
                     <<"imread">>, <<>>, None)
        ELSE Outcome("", <<>>,
                     IF call.output_path = None
                     THEN <<"imread", "output_path", "imwrite">>
                     ELSE <<"imread", "imwrite">>,
                     <<[path |-> output_path,
                        img |-> convert_back_(call.img[1].dtype, adjusted[1],
                                              nan_as)]>>,
                     Some(output_path))

\* the operator named op applied to the arguments a
Call(op, a) ==
    CASE op = "BigCols" -> BigCols(a[1])
      [] op = "BigMul" -> BigMul(a[1], a[2])
      [] op = "BigDiv" -> BigDiv(a[1], a[2])
      [] op = "Round" -> Round(a[1], a[2], a[3], a[4])
      [] op = "FInt" -> FInt(a[1], a[2])
      [] op = "FAdd" -> FAdd(a[1], a[2], a[3])
      [] op = "FMul" -> FMul(a[1], a[2], a[3])
      [] op = "FDiv" -> FDiv(a[1], a[2], a[3])
      [] op = "FLess" -> FLess(a[1], a[2])
      [] op = "FTrunc" -> FTrunc(a[1])
      [] op = "pixelVal" -> pixelVal(a[1], a[2], a[3], a[4], a[5])
      [] op = "Normalize" -> Normalize(a[1])
      [] op = "ScaleBack" -> ScaleBack(a[1], a[2], a[3])
      [] op = "np_power" -> np_power(a[1], a[2])
      [] op = "curves_adjusted" -> curves_adjusted(a[1])
      [] op = "img_8bit" -> img_8bit(a[1])
      [] op = "convert_back" -> convert_back(a[1], a[2], a[3])
      [] op = "method_chain" -> method_chain(a[1], a[2], a[3], a[4])
      [] op = "adjust_contrast" -> adjust_contrast(a[1], a[2], a[3])

\* the samples of the images that are followed, by dtype, in increasing
\* order
Levels(dtype) ==
    IF dtype = "float32" THEN <<Zero, Half, FInt_(Binary32, 255)>>
    ELSE <<Zero, One, FInt_(Binary32, DtypeMax(dtype))>>

\* the images: one row of up to MaxSamples gray samples, or one pixel of
\* three or four channels
ContrastImages ==
    UNION {
        UNION {
            {[dtype |-> d, shape |-> <<1, Len(s)>>, data |-> s] :
                s \in UNION {[1..n -> {lv[l] : l \in 1..3}] :
                                n \in 1..MaxSamples}}
            \cup {[dtype |-> d, shape |-> <<1, 1, Len(s)>>, data |-> s] :
                    s \in {lv, <<lv[3], lv[3], lv[3]>>, lv \o <<lv[3]>>,
                           <<lv[3], lv[3], lv[3], lv[3]>>}}
            : lv \in {Levels(d)}}
        : d \in {"uint8", "uint16", "float32"}}

\* the methods and the parameters of the calls; no program has a method
\* 'histogram'
MethodParams ==
    {[method |-> "linear", params |-> p] :
        p \in {None, Some([alpha |-> One, beta |-> Zero]),
               Some([alpha |-> Dyadic(3, 0), beta |-> Dyadic(-1, -1)])}}
    \cup {[method |-> "sigmoid", params |-> p] :
            p \in {None, Some([gain |-> Dyadic(-5, 0), cutoff |-> Half])}}
    \cup {[method |-> "gamma", params |-> p] :
            p \in {None, Some([gamma |-> Dyadic(17, 0)])}}
    \cup {[method |-> m, params |-> None] :
            m \in {"equalize", "cubic_spline", "histogram"}}

\* the paths of the calls
ContrastPaths ==
    {[image_path |-> <<"/", "d", "/", "m31", ".", "v2", ".", "tif">>,
      output_path |-> None],
     [image_path |-> <<"img", ".", "tif">>,
      output_path |-> Some(<<"/", "a", "/", "out", ".", "tif">>)]}

\* more paths, of calls on one image: a relative path, a file at the
\* root, a name without extension, a name that begins with its only dot,
\* and an output path that is the input path
MorePaths ==
    {[image_path |-> <<"img", ".", "tif">>, output_path |-> None],
     [image_path |-> <<"/", "x", ".", "tif">>, output_path |-> None],
     [image_path |-> <<"/", "d", "/", "raw">>, output_path |-> None],
     [image_path |-> <<"/", "d", "/", ".", "tif">>, output_path |-> None],
     [image_path |-> <<"/", "d", "/", "x", ".", "tif">>,
      output_path |-> Some(<<"/", "d", "/", "x", ".", "tif">>)]}

\* the calls of adjust_contrast: of an image file, and of a file that
\* cv2.imread cannot read
ContrastCalls ==
    {[image_path |-> p.image_path, img |-> i, method |-> mp.method,
      params |-> mp.params, output_path |-> p.output_path] :
        p \in ContrastPaths, mp \in MethodParams,
        i \in {None} \cup {Some(img) : img \in ContrastImages}}
    \cup {[image_path |-> p.image_path,
           img |-> Some([dtype |-> "uint8", shape |-> <<1, 1>>,
                         data |-> <<One>>]),
           method |-> "linear", params |-> None,
           output_path |-> p.output_path] : p \in MorePaths}

\* the file the host has open when the curves step runs first
CurvesFile == Some(<<"/", "a", "/", "b", "/", "img", ".", "fit">>)

\* the images that the curves step of the pipeline reads back
CurvesCalls ==
    {[image_path |-> current_file_name(CurvesFile, <<>>, Some(TIF)),
      img |-> Some(img), method |-> "curves", params |-> None,
      output_path |-> None] : img \in ContrastImages}

ContrastInit ==
    /\ script \in {"contrast", "tests/contrast", "Processinator"}
    /\ NoGui
    /\ tool \in {Some(c) : c \in IF script = "Processinator" THEN CurvesCalls
                                 ELSE ContrastCalls}
    /\ tool_pc = "called"
    /\ tool_out = <<>>

\* the values a NaN among the samples of adjusted may become in an array of
\* the dtype of the call's image
NanCasts(call, adjusted) ==
    IF /\ call.img # None /\ call.img[1].dtype # "float32"
       /\ adjusted # None
       /\ \E i \in DOMAIN adjusted[1].data : adjusted[1].data[i].k = "nan"
    THEN {0, DtypeMax(call.img[1].dtype)}
    ELSE {0}

\* a call of adjust_contrast, from cv2.imread to its return or to the
\* exception it raises
adjust_contrast_call ==
    /\ script \in {"contrast", "tests/contrast"}
    /\ tool_pc = "called"
    /\ \E adjusted \in {IF tool[1].img = None THEN None
                        ELSE method_chain_(Methods(script), tool[1].method,
                                           tool[1].img[1], tool[1].params)} :
          \E nan_as \in NanCasts(tool[1], adjusted) :
             \E out \in {adjust_contrast_(tool[1], adjusted, nan_as)} :
                /\ tool_out' = out
                /\ tool_pc' = IF out.raised # "" THEN "raised" ELSE "returned"
    /\ UNCHANGED tool
    /\ UNCHANGED GuiVars

\* Processinator.curves on the image it has read back, from "Get the image
\* data type to preserve it" to cv2.imwrite
curves_call ==
    /\ script = "Processinator"
    /\ tool_pc = "called"
    /\ \E adjusted \in {Some([shape |-> tool[1].img[1].shape,
                              data |-> curves_adjusted_(
                                           tool[1].img[1].data)])} :
          \E nan_as \in NanCasts(tool[1], adjusted) :
             tool_out' = Outcome("", <<>>, <<"imread", "imwrite">>,
                                 <<[path |-> current_file_name(
                                                CurvesFile, <<"Curves">>,
                                                Some(TIF)),
                                    img |-> convert_back_(
                                                tool[1].img[1].dtype,
                                                adjusted[1], nan_as)]>>,
                                 None)
    /\ tool_pc' = "returned"
    /\ UNCHANGED tool
    /\ UNCHANGED GuiVars

ContrastNext == adjust_contrast_call \/ curves_call

ContrastSpec == ContrastInit /\ [][ContrastNext]_vars

-----------------------------------------------------------------------------
(* Properties: vocabulary *)

IsPrefix(a, b) == Len(a) <= Len(b) /\ SubSeq(b, 1, Len(a)) = a

\* the tag each step is documented to leave in the file name
ClaimTag ==
    [n \in StepNames |->
        CASE n = "unclip" -> "UC"
          [] n = "crop" -> "CR"
          [] n = "background_extraction" -> "BE"
          [] n = "plate_solve" -> "PS"
          [] n = "color_calibration" -> "SPCC"
          [] n = "star_separation" -> "StarSep"
          [] n = "stretch" -> "ST"
          [] n = "star_recombination" -> "StarComb"
          [] n = "remove_green" -> "DG"
          [] n = "curves" -> "Curves"
          [] n = "adjustments" -> "Adj"
          [] n = "denoise" -> "DN"
          [] n = "sharpen" -> "SH"]

\* t1_t2_..._tn, built from the right
RECURSIVE Underscored(_)
Underscored(tags) ==
    IF Len(tags) = 0 THEN <<>>
    ELSE IF Len(tags) = 1 THEN tags
    ELSE Underscored(SubSeq(tags, 1, Len(tags) - 1))
            \o <<"_", tags[Len(tags)]>>

\* {parent}/{stem}_{tags}{ext} for the file of parts r
ExpectedName(r, tags, ext) ==
    r.parent \o <<"/">> \o r.stem \o <<"_">> \o Underscored(tags) \o ext

\* the parts of the file the run works on
CurrentParts == CHOOSE r \in FileParts : current_file = Some(FilePath(r))

InRun == script = "Processinator" /\ current_file # None /\ pc # "quit"

\* the step methods the run has entered so far, in the order of entry: a
\* method announces itself with one status message of a single token
Announcements ==
    SelectSeq(log, LAMBDA e : e.type = "status" /\ e.by \in StepNames
                              /\ Len(e.arg) = 1)

Executed == [i \in 1..Len(Announcements) |-> Announcements[i].by]

\* the calls to the host of the run, and the last of them
HostCalls == SelectSeq(log, LAMBDA e : e.type # "status" /\ e.type # "cv2")

LastCall == HostCalls[Len(HostCalls)]

\* cv2.imread has returned None in the curves step
LoadFailed ==
    \E i \in 1..Len(log) :
        log[i].type = "msgbox" /\ log[i].arg = <<"Failed to load image">>

\* the run has gone through all its steps and its final save, nothing failed
CleanRunOver ==
    InRun /\ pc = "finally" /\ failed = "none" /\ ~LoadFailed

-----------------------------------------------------------------------------
(* Properties *)

\* C1: when a run of Processinator ends and no step has failed, the steps
\* that ran are exactly the ticked ones and the last command sent to the
\* host is the save of {parent}/{stem}_{T}{ext}, T being the documented tags
\* of the steps that ran, in the order they ran, joined by underscores
C1_FinalName ==
    CleanRunOver =>
        /\ {Executed[i] : i \in 1..Len(Executed)}
              = {n \in StepNames : step_vars[n]}
        /\ Len(Executed) = Cardinality({n \in StepNames : step_vars[n]})
        /\ LastCall.name = "save"
        /\ LastCall.arg =
              Quote(ExpectedName(CurrentParts,
                                 [i \in 1..Len(Executed) |->
                                     ClaimTag[Executed[i]]],
                                 CurrentParts.ext))

\* C1 witness: a run of eight steps, the curves step among them, has ended
\* with its final save
C1_Witness ==
    /\ CleanRunOver
    /\ Len(steps) = 8
    /\ step_vars["curves"]
    /\ LastCall.by = "save_result"

\* C2: at every moment the name _current_file_name derives is
\* {parent}/{stem}_{t1}_..._{tn} followed by the extension of the input
\* file when no suffix is given, and by the suffix given otherwise, the
\* empty one included; for /a/b/img.fit with tags UC, BE it is
\* /a/b/img_UC_BE.fit; and the tag list is empty when the first step of a
\* run is reached
C2_CurrentFileName ==
    /\ InRun =>
          /\ current_file_name(current_file, steps, None)
                = ExpectedName(CurrentParts, steps, CurrentParts.ext)
          /\ \A sfx \in {<<>>, <<".", "tif">>} :
                current_file_name(current_file, steps, Some(sfx))
                   = ExpectedName(CurrentParts, steps, sfx)
    /\ (InRun /\ steps = <<"UC", "BE">>
          /\ current_file = Some(<<"/", "a", "/", "b", "/", "img", ".", "fit">>))
          => current_file_name(current_file, steps, None)
                = <<"/", "a", "/", "b", "/", "img", "_", "UC", "_", "BE",
                    ".", "fit">>
    /\ (script = "Processinator" /\ pc = StepOrder[1]) => steps = <<>>

\* C2 witness: /a/b/img.fit is being processed and the tags are UC, BE
C2_Witness ==
    /\ InRun
    /\ steps = <<"UC", "BE">>
    /\ current_file = Some(<<"/", "a", "/", "b", "/", "img", ".", "fit">>)

\* the events that write an image file: the host commands save and
\* savetif, and cv2.imwrite
Writes ==
    SelectSeq(log, LAMBDA e : \/ e.type = "cmd" /\ e.name \in {"save", "savetif"}
                              \/ e.type = "cv2" /\ e.name = "imwrite")

\* the file name in the arguments of a command, without its quotes
Unquoted(arg) ==
    IF arg # <<>> /\ arg[1] = "\""
    THEN SubSeq(arg, 2, rfind(arg, "\"") - 1)
    ELSE arg

Target(e) == Unquoted(e.arg)

\* name is what _current_file_name gives for some prefix of the tags
\* applied so far and one of the suffixes in use
TagDerived(name) ==
    \E k \in 0..Len(steps) :
    \E sfx \in {None, Some(<<>>), Some(<<".", "tif">>)} :
        name = current_file_name(current_file, SubSeq(steps, 1, k), sfx)

\* C3: a run with only unclip, curves and adjustments ticked and
\* save-every-step on writes exactly three files, {stem}_UC{ext},
\* {stem}_UC_Curves{ext} and {stem}_UC_Curves_Adj{ext}, in that order
C3_ThreeArtifacts ==
    (/\ CleanRunOver
     /\ save_each_step = Some(TRUE)
     /\ {n \in StepNames : step_vars[n]} = {"unclip", "curves", "adjustments"})
    => [i \in 1..Len(Writes) |-> Target(Writes[i])]
          = << ExpectedName(CurrentParts, <<"UC">>, CurrentParts.ext),
               ExpectedName(CurrentParts, <<"UC", "Curves">>,
                            CurrentParts.ext),
               ExpectedName(CurrentParts, <<"UC", "Curves", "Adj">>,
                            CurrentParts.ext) >>

\* C4: every file written during a run of Processinator is written under a
\* name _current_file_name derives from the tags applied so far
C4_AllWritesTagNamed ==
    InRun => \A i \in 1..Len(Writes) : TagDerived(Target(Writes[i]))

\* C5: the tag list is empty when the first step of a run is reached, and
\* every step of the program either extends the tag list (or leaves it
\* alone) or is the start of a run, which empties it
C5_AppendOnly ==
    /\ []((script = "Processinator" /\ pc = StepOrder[1]) => steps = <<>>)
    /\ [][\/ IsPrefix(steps, steps')
          \/ pc = "start" /\ pc' = StepOrder[1] /\ steps' = <<>>]_vars

\* C5 witness: a run has applied three tags or more and a new run is about
\* to empty the list
C5_Witness ==
    script = "Processinator" /\ pc = "start" /\ Len(steps) >= 3

\* the host command that only the step n sends
IsCommandOf(n, e) ==
    /\ e.type \in {"cmd", "call"}
    /\ CASE n = "unclip" -> e.name = "unclipstars"
         [] n = "crop" -> e.name \in {"crop", "get_image_shape"}
         [] n = "background_extraction" -> e.name = "subsky"
         [] n = "plate_solve" -> e.name = "platesolve"
         [] n = "color_calibration" -> e.name = "spcc"
         [] n = "star_separation" -> e.name = "starnet"
         [] n = "stretch" -> e.name = "autostretch"
         [] n = "star_recombination" -> e.name \in {"modasinh", "pm"}
         [] n = "remove_green" -> e.name = "rmgreen"
         [] n = "curves" -> e.name = "savetif"
         [] n = "adjustments" -> e.name = "satu"
         [] n = "denoise" -> e.name = "pyscript"
                             /\ e.arg = <<"CosmicClarity_Denoise.py">>
         [] n = "sharpen" -> e.name = "pyscript"
                             /\ e.arg = <<"CosmicClarity_Sharpen.py">>

\* C6: a step whose checkbox is not ticked leaves no trace in the run: no
\* command of the step reaches the host, no message, save or other event
\* comes from its method, and its tag is not in the tag list
C6_DisabledStepSilent ==
    InRun =>
        \A n \in StepNames :
            ~step_vars[n] =>
                /\ \A i \in 1..Len(log) :
                      log[i].by # n /\ ~IsCommandOf(n, log[i])
                /\ \A i \in 1..Len(steps) : steps[i] # ClaimTag[n]

\* C6 witness: a run has ended in which crop and curves were not ticked and
\* two or more other steps ran
C6_Witness ==
    /\ CleanRunOver
    /\ ~step_vars["crop"] /\ ~step_vars["curves"]
    /\ Len(steps) >= 2

\* C7: when the worker reaches the end of runner and no step method has
\* raised, the last call to the host is the final save, made by save_result
\* after everything the steps did, under the name of the complete tag list;
\* so in both save modes and for every selection
C7_FinalSave ==
    (InRun /\ pc = "finally" /\ failed \notin StepNames) =>
        /\ HostCalls # <<>>
        /\ LastCall = log[Len(log)]
        /\ LastCall.name = "save" /\ LastCall.by = "save_result"
        /\ LastCall.arg = Quote(ExpectedName(CurrentParts, steps,
                                             CurrentParts.ext))

\* C7 witness: a run in save-only-final mode with two steps or more has
\* issued its final save
C7_Witness ==
    /\ CleanRunOver
    /\ save_each_step = Some(FALSE)
    /\ Len(steps) >= 2
    /\ LastCall.by = "save_result"

\* C8 as stated: in save-only-final mode the only file written under a
\* tag-derived name is the final save
C8_OnlyFinalSave ==
    (InRun /\ save_each_step = Some(FALSE)) =>
        \A i \in 1..Len(Writes) :
            TagDerived(Target(Writes[i])) => Writes[i].by = "save_result"

\* C8 amended: in save-only-final mode the files written under a
\* tag-derived name are the final save and the two TIFF files of the curves
\* step (the savetif of {stem}_{T} and the imwrite of {stem}_{T}_Curves.tif);
\* no step method sends a save command under a tag-derived name
C8_OnlyCurvesTiffAndFinalSave ==
    (InRun /\ save_each_step = Some(FALSE)) =>
        \A i \in 1..Len(Writes) :
            TagDerived(Target(Writes[i])) =>
                \/ Writes[i].by = "save_result" /\ Writes[i].name = "save"
                \/ /\ Writes[i].by = "curves"
                   /\ Writes[i].name \in {"savetif", "imwrite"}
                   /\ \E k \in 0..Len(steps) :
                         Target(Writes[i]) \in
                            { ExpectedName(CurrentParts, SubSeq(steps, 1, k),
                                           <<>>),
                              ExpectedName(CurrentParts,
                                           Append(SubSeq(steps, 1, k), "Curves"),
                                           <<".", "tif">>) }

\* C8 witness: a run in save-only-final mode, with the curves step and two
\* other steps, has ended
C8_Witness ==
    /\ CleanRunOver
    /\ save_each_step = Some(FALSE)
    /\ Len(steps) >= 3
    /\ \E i \in 1..Len(Writes) : Writes[i].by = "curves"
    /\ \E i \in 1..Len(Writes) : Writes[i].by = "save_result"

\* a step has failed: a call to the host has raised, or the curves step
\* could not load its image
IsFailure(e) ==
    \/ ~e.ok
    \/ e.type = "msgbox" /\ e.arg = <<"Failed to load image">>

\* C9: once a step has failed the run does nothing more: after the failure
\* the only event is the "Done" of the finally block, so no later step
\* runs and no final save is issued
C9_FailureAborts ==
    InRun =>
        \A i \in 1..Len(log) :
            IsFailure(log[i]) =>
                \A j \in (i + 1)..Len(log) : log[j].by = "runner"

\* a worker thread is alive
Running == pc \notin {"idle", "quit"}

\* the worker has ended and the buttons of the script are enabled
Reenabled ==
    /\ pc = "idle"
    /\ close_button = NORMAL
    /\ script = "Processinator" => process_button = NORMAL
    /\ script = "Stackinator" => stack_button = NORMAL

\* C10: every run that starts, of Processinator or of Stackinator, ends
\* with the Quit button and the Process (or Stack) button enabled, whether
\* or not a step raises
C10_ButtonsReenabled == Running ~> Reenabled

\* C10 witness: a run in which a step raised has ended and the buttons are
\* enabled again
C10_Witness ==
    /\ Reenabled
    /\ failed \in StepNames \cup StackNames
    /\ log # <<>> /\ log[Len(log)].arg = <<"Done">>


\* C11: at most one run is in flight: from the moment process starts a
\* worker until the runner of that worker has finished, no second worker is
\* alive, whenever the user presses Process
C11_OneRunInFlight ==
    ~(pc \notin {"idle", "quit"} /\ pc2 # "idle")

\* C12: the configuration of a run is fixed when the run starts: when a run
\* has gone through all its steps and nothing failed, the steps it has
\* executed are those whose checkboxes were ticked when runner began, and
\* its save-every-step mode is the one the option had at that moment,
\* whatever the user has clicked since
C12_ConfigFixed ==
    CleanRunOver =>
        /\ {Executed[i] : i \in 1..Len(Executed)} = run_config[1].steps
        /\ save_each_step = Some(run_config[1].save)

\* star_recombination has run to its end in the run in flight, and runner
\* is at the next step
Recombined ==
    /\ InRun
    /\ pc = NextPc("star_recombination")
    /\ step_vars["star_recombination"]

\* the places in the history of the commands star_recombination has sent
RecombinationCmds ==
    {i \in 1..Len(log) : log[i].by = "star_recombination"
                            /\ log[i].type = "cmd" /\ log[i].ok}

\* star_recombination has saved the current image as starless_result, and
\* has done so before it loaded the star mask
SavedStarlessFirst ==
    \E i \in RecombinationCmds :
        /\ log[i].name = "save"
        /\ log[i].arg = <<"starless", "_", "result">>
        /\ \A j \in RecombinationCmds : j >= i
        /\ \E j \in RecombinationCmds : j > i /\ log[j].name = "load"

StarSepAbsent == \A i \in 1..Len(steps) : steps[i] # "StarSep"

Messages == SelectSeq(log, LAMBDA e : e.type \in {"status", "msgbox"})

\* a run has ended in which a method raised
FailedRunOver == pc = "idle" /\ failed # "none" /\ log # <<>>

\* C14: when a step has failed, the last message the user is shown (status
\* text or message box) names the failing step, and it is not the message
\* that ends a successful run
C14_FailureReported ==
    FailedRunOver =>
        /\ Messages # <<>>
        /\ Messages[Len(Messages)].arg # <<"Done">>
        /\ \E i \in 1..Len(Messages[Len(Messages)].arg) :
              Messages[Len(Messages)].arg[i] = failed

\* the script test-curves.py is running on breakpoints 0 < r1 < r2 < MAX
OrderedBreakpoints ==
    /\ script = "test-curves"
    /\ 0 < tool[1].r1 /\ tool[1].r1 < tool[1].r2 /\ tool[1].r2 < MAX_VALUE

\* the places of the image whose sample is v and has been mapped
MappedAt(v) ==
    {i \in 1..Len(tool_out.vals) : tool[1].img[i] = v}

\* |x - n| <= 2^-43 for a finite float x and an integer n
Near(x, n) ==
    /\ x.k = "fin"
    /\ LET d == FAdd(Exact, x, FInt(Exact, -n))
       IN  ~FLess([k |-> "fin", neg |-> FALSE, m |-> <<1>>, e |-> -43],
                  [d EXCEPT !.neg = FALSE])

\* C18 (as stated): for breakpoints 0 < r1 < r2 < MAX_VALUE, pixelVal
\* maps 0 to 0, r1 to s1 and r2 to s2
C18_ThroughBreakpoints ==
    OrderedBreakpoints =>
        /\ \A i \in MappedAt(0) : tool_out.vals[i] = Zero
        /\ \A i \in MappedAt(tool[1].r1) :
              tool_out.vals[i] = FInt(Binary64, tool[1].s1)
        /\ \A i \in MappedAt(tool[1].r2) :
              tool_out.vals[i] = FInt(Binary64, tool[1].s2)

\* C18 (amended): for breakpoints 0 < r1 < r2 < MAX_VALUE, pixelVal maps 0
\* to 0, and maps r1 and r2 to s1 and s2 to within 2^-43, the rounding of
\* the division and the multiplication; with r1 = 70, s1 = 0, r2 = 140,
\* s2 = 255 it maps 70 to 0, 140 to 255 and 0 to 0 exactly
C18_ThroughBreakpointsRounded ==
    OrderedBreakpoints =>
        /\ \A i \in MappedAt(0) : tool_out.vals[i] = Zero
        /\ \A i \in MappedAt(tool[1].r1) :
              Near(tool_out.vals[i], tool[1].s1)
        /\ \A i \in MappedAt(tool[1].r2) :
              Near(tool_out.vals[i], tool[1].s2)
        /\ (tool[1].r1 = 70 /\ tool[1].s1 = 0 /\ tool[1].r2 = 140
              /\ tool[1].s2 = 255) =>
              /\ \A i \in MappedAt(70) : tool_out.vals[i] = Zero
              /\ \A i \in MappedAt(140) :
                    tool_out.vals[i] = FInt(Binary64, 255)

\* C18 witness: with breakpoints (7, 29) and (140, 255) the samples 7 and
\* 140 have been mapped, and 7 is mapped to a value that is not 29
C18_Witness ==
    /\ OrderedBreakpoints
    /\ tool[1].r1 = 7 /\ tool[1].s1 = 29
    /\ tool[1].r2 = 140 /\ tool[1].s2 = 255
    /\ tool[1].img = <<7, 140>>
    /\ tool_pc = "done"
    /\ tool_out.vals[1] # FInt(Binary64, 29)

\* C19: breakpoints with r1 = 0 or r2 = r1 are rejected before any sample
\* is mapped: with such breakpoints the script maps no sample and never
\* completes
C19_RejectedBeforeMapping ==
    (script = "test-curves"
        /\ (tool[1].r1 = 0 \/ tool[1].r2 = tool[1].r1)) =>
        /\ tool_out.vals = <<>>
        /\ tool_pc # "done"

\* a call of adjust_contrast, or the curves step on the image it has read
\* back, has written its image
ToolReturned ==
    /\ script \in {"contrast", "tests/contrast", "Processinator"}
    /\ tool_pc = "returned"

\* the image that was read and the image that was written
ImageIn == tool[1].img[1]
ImageOut == tool_out.written[1].img

\* the number of samples of an array of this shape
ShapeSize(shape) ==
    shape[1] * shape[2] * (IF Len(shape) = 3 THEN shape[3] ELSE 1)

\* every sample of an image of an unsigned dtype is an integer of the range
\* of the dtype
InDtypeRange(img) ==
    img.dtype \in {"uint8", "uint16"} =>
        \A i \in DOMAIN img.data :
            /\ img.data[i].k = "fin"
            /\ ~FLess(img.data[i], Zero)
            /\ ~FLess(FInt(Binary32, DtypeMax(img.dtype)), img.data[i])
            /\ img.data[i] = FInt(Binary32, FTrunc(img.data[i]))

\* C15 (as stated): for every image and every method, the curves step
\* included, the image written has the dtype and the shape of the image
\* read, and the samples of a uint8 or uint16 image lie in the range of the
\* dtype
C15_DtypeShapeRange ==
    ToolReturned =>
        /\ ImageOut.dtype = ImageIn.dtype
        /\ ImageOut.shape = ImageIn.shape
        /\ InDtypeRange(ImageOut)

\* C15 (amended): the image written has the dtype of the image read, as
\* many samples as its shape says, samples in the range of a uint8 or
\* uint16 dtype, and the shape of the image read, except that equalize
\* writes three channels for an image of four
C15_DtypeRangeShapeButAlpha ==
    ToolReturned =>
        /\ ImageOut.dtype = ImageIn.dtype
        /\ Len(ImageOut.data) = ShapeSize(ImageOut.shape)
        /\ InDtypeRange(ImageOut)
        /\ ImageOut.shape =
              IF tool[1].method = "equalize" /\ Len(ImageIn.shape) = 3
                    /\ ImageIn.shape[3] = 4
              THEN <<ImageIn.shape[1], ImageIn.shape[2], 3>>
              ELSE ImageIn.shape

\* C15 witness: equalize has written three uint16 channels for an image of
\* four
C15_Witness ==
    /\ ToolReturned
    /\ tool[1].method = "equalize"
    /\ ImageIn.dtype = "uint16" /\ ImageIn.shape = <<1, 1, 4>>
    /\ ImageOut.dtype = "uint16" /\ ImageOut.shape = <<1, 1, 3>>
    /\ Len(ImageOut.data) = 3

\* all the samples of the image are the same
ConstantImage(img) ==
    \A i \in DOMAIN img.data : img.data[i] = img.data[1]

\* C16: linear, sigmoid, gamma and cubic_spline, whatever their parameters,
\* write an image whose samples are all identical as it was read, sample
\* for sample
C16_ConstantUnchanged ==
    (ToolReturned
        /\ tool[1].method \in {"linear", "sigmoid", "gamma", "cubic_spline"}
        /\ ConstantImage(ImageIn)) =>
        ImageOut.data = ImageIn.data

\* a call of the linear method with alpha = 1 and beta = 0 has returned
LinearUnit ==
    /\ ToolReturned
    /\ tool[1].method = "linear"
    /\ tool[1].params = Some([alpha |-> One, beta |-> Zero])

\* |x - y| <= t for finite floats
Within(x, y, t) ==
    /\ x.k = "fin" /\ y.k = "fin"
    /\ ~FLess(t, [FSub(Exact, x, y) EXCEPT !.neg = FALSE])

LinearTolerance == Dyadic(1, -16)

BadCallOver ==
    /\ script \in {"contrast", "tests/contrast"}
    /\ tool_pc # "called"
    /\ tool[1].img = None \/ tool[1].method \notin Methods(script)

\* C20: adjust_contrast raises an error and writes no file when the image
\* cannot be read or the method is not one of the program's, and it raises
\* before it computes the output path or writes
C20_ErrorBeforeOutput ==
    BadCallOver =>
        /\ tool_pc = "raised"
        /\ tool_out.raised = "ValueError"
        /\ tool_out.written = <<>>
        /\ tool_out.returned = None
        /\ \A i \in 1..Len(tool_out.events) :
              tool_out.events[i] \notin {"output_path", "imwrite"}

\* C20 witness: contrast.py, which has no cubic_spline, has raised on an
\* image it could read, and a program has raised on a file it could not
\* read
C20_Witness ==
    /\ BadCallOver
    /\ tool_pc = "raised"
    /\ \/ /\ script = "contrast" /\ tool[1].img # None
          /\ tool[1].method = "cubic_spline"
          /\ tool_out.message[1] = "Unknown contrast adjustment method: "
       \/ /\ tool[1].img = None
          /\ tool_out.message[1] = "Could not read image from "

\* a call of adjust_contrast has returned
ContrastReturned ==
    /\ script \in {"contrast", "tests/contrast"}
    /\ tool_pc = "returned"

\* the last token "." of p that is neither the first nor the last token of
\* the final component of p; 0 when there is none
ExtensionDot(p) ==
    LET dots == {i \in 2..(Len(p) - 1) :
                    /\ p[i] = "." /\ p[i - 1] # "/"
                    /\ \A j \in i..Len(p) : p[j] # "/"
                    /\ \A j \in (i + 1)..Len(p) : p[j] # "."}
    IN  IF dots = {} THEN 0 ELSE CHOOSE i \in dots : TRUE

\* {parent}/{stem}_contrast{ext}: the path p with _contrast put before the
\* extension, or at the end of a name without extension
ContrastNamed(p) ==
    IF ExtensionDot(p) = 0 THEN p \o <<"_contrast">>
    ELSE SubSeq(p, 1, ExtensionDot(p) - 1) \o <<"_contrast">>
            \o SubSeq(p, ExtensionDot(p), Len(p))

WithinRangeOf(img, x) ==
    /\ x.k = "fin"
    /\ ~FLess(x, np_min(img.data))
    /\ ~FLess(np_max(img.data), x)

\* C29: linear, sigmoid, gamma (gamma >= 0) and cubic_spline, and the
\* curves step, write no sample below the least or above the greatest
\* sample of the image read
C29_RangeNotWidened ==
    (ToolReturned
        /\ tool[1].method
              \in {"linear", "sigmoid", "gamma", "cubic_spline", "curves"}) =>
        \A i \in DOMAIN ImageOut.data :
            WithinRangeOf(ImageIn, ImageOut.data[i])
\* a save a step makes of its own result: the save command of _save_state,
\* whose argument is a quoted file name, or the cv2.imwrite of curves
IsStepSave(e) ==
    \/ e.type = "cmd" /\ e.name = "save" /\ e.arg # <<>> /\ e.arg[1] = "\""
    \/ e.type = "cv2" /\ e.name = "imwrite"

\* the event belongs to the body of step n: a call of the method n that is
\* neither the save of its result nor the load that follows it in curves
IsBody(n, e) ==
    /\ e.by = n
    /\ e.type # "status"
    /\ ~IsStepSave(e)
    /\ ~(n = "curves" /\ e.type = "cmd" /\ e.name = "load")

\* the tag of step n is in the tag sequence
Tagged(n) == \E k \in 1..Len(steps) : steps[k] = ClaimTag[n]

\* the tag sequence up to the tag of step n
TagsThrough(n) ==
    SubSeq(steps, 1, CHOOSE k \in 1..Len(steps) : steps[k] = ClaimTag[n])

\* C22: once a run has emptied the tag sequence, the tag of a step is in
\* the tag sequence only when the body of the
\* step has completed (the step has made its calls and none has raised),
\* and the save of a step comes after its body, when its tag is in the
\* sequence, under the name of the tags up to that tag
C22_BodyTagSave ==
    (InRun /\ pc # "start") =>
        \A n \in StepNames :
            /\ Tagged(n) =>
                  /\ \E i \in 1..Len(log) : IsBody(n, log[i])
                  /\ \A i \in 1..Len(log) : IsBody(n, log[i]) => log[i].ok
            /\ \A i \in 1..Len(log) :
                  (log[i].by = n /\ IsStepSave(log[i])) =>
                      /\ Tagged(n)
                      /\ Target(log[i])
                            \in {ExpectedName(CurrentParts, TagsThrough(n),
                                              CurrentParts.ext),
                                 ExpectedName(CurrentParts, TagsThrough(n),
                                              <<".", "tif">>)}
                      /\ \A j \in 1..Len(log) :
                            IsBody(n, log[j]) => j < i
\* a run with exactly unclip, background extraction, plate solve, crop,
\* color calibration, stretch, curves and adjustments ticked has gone
\* through all its steps and its final save, and nothing has failed
EightStepRunOver ==
    /\ CleanRunOver
    /\ {n \in StepNames : step_vars[n]}
          = {"unclip", "background_extraction", "plate_solve", "crop",
             "color_calibration", "stretch", "curves", "adjustments"}

\* C23 (as stated): that run saves its final artifact as
\* {stem}_UC_BE_PS_CR_SPCC_ST_Curves_Adj{ext}
C23_FinalArtifactName ==
    EightStepRunOver =>
        /\ LastCall.name = "save" /\ LastCall.by = "save_result"
        /\ Target(LastCall)
              = ExpectedName(CurrentParts,
                             <<"UC", "BE", "PS", "CR", "SPCC", "ST", "Curves",
                               "Adj">>,
                             CurrentParts.ext)

\* C23 (amended): that run saves its final artifact as
\* {stem}_UC_CR_BE_PS_SPCC_ST_Curves_Adj{ext}: crop runs second
C23_FinalArtifactNameCropSecond ==
    EightStepRunOver =>
        /\ LastCall.name = "save" /\ LastCall.by = "save_result"
        /\ Target(LastCall)
              = ExpectedName(CurrentParts,
                             <<"UC", "CR", "BE", "PS", "SPCC", "ST", "Curves",
                               "Adj">>,
                             CurrentParts.ext)

\* C23 witness: that run has ended for /d/m31.v2.fits, and its last call
\* to the host is the final save
C23_Witness ==
    /\ EightStepRunOver
    /\ current_file
          = Some(<<"/", "d", "/", "m31", ".", "v2", ".", "fits">>)
    /\ Len(steps) = 8
    /\ LastCall.name = "save" /\ LastCall.by = "save_result"
\* the saves of _save_state, by the steps and by save_result, in the order
\* they were issued
StateSaves ==
    SelectSeq(log, LAMBDA e : e.type = "cmd" /\ e.name = "save"
                              /\ e.arg # <<>> /\ e.arg[1] = "\"")

\* C24: no two saves of a run, the saves of the steps and the final save,
\* are of the same file name
C24_UniqueSaveNames ==
    (InRun /\ pc # "start") =>
        \A i \in 1..Len(StateSaves) : \A j \in 1..Len(StateSaves) :
            i # j => Target(StateSaves[i]) # Target(StateSaves[j])
EmptyRunOver ==
    /\ InRun /\ pc = "finally"
    /\ \A n \in StepNames : ~step_vars[n]

\* C26: a run with no step ticked sends no command of a step and applies
\* no tag: its only call to the host is the save of save_result, and the
\* only file it writes is {parent}/{stem}_{ext}
C26_EmptyRunSavesOnce ==
    EmptyRunOver =>
        /\ steps = <<>>
        /\ \A i \in 1..Len(log) : log[i].by = "save_result"
        /\ Len(HostCalls) = 1
        /\ HostCalls[1].type = "cmd" /\ HostCalls[1].name = "save"
        /\ Len(Writes) = 1
        /\ Target(Writes[1])
              = CurrentParts.parent \o <<"/">> \o CurrentParts.stem
                   \o <<"_">> \o CurrentParts.ext

\* C26 witness: such a run on /a/b/img.fit has saved /a/b/img_.fit
C26_Witness ==
    /\ EmptyRunOver
    /\ failed = "none"
    /\ Len(Writes) = 1
    /\ Writes[1].arg
          = <<"\"", "/", "a", "/", "b", "/", "img", "_", ".", "fit", "\"">>
\* what the curves step has asked of the host and of cv2, in order
CurvesEvents ==
    SelectSeq(log, LAMBDA e : e.by = "curves" /\ e.type # "status")

\* the tags that were applied when the curves step started
TagsBeforeCurves ==
    SubSeq(steps, 1, (CHOOSE k \in 1..Len(steps) : steps[k] = "Curves") - 1)

\* C27: a curves step that has applied its tag has, in this order, asked
\* the host to save {stem}_T as TIFF, read {stem}_T.tif, written
\* {stem}_T_Curves.tif and told the host to load the file it has written,
\* T being the tags applied when the step started; so in both save modes
C27_CurvesRoundTrip ==
    (InRun /\ pc # "start" /\ Tagged("curves")) =>
        /\ Len(CurvesEvents) = 4
        /\ CurvesEvents[1].type = "cmd" /\ CurvesEvents[1].name = "savetif"
        /\ CurvesEvents[1].arg
              = Quote(ExpectedName(CurrentParts, TagsBeforeCurves, <<>>))
                   \o <<"-deflate">>
        /\ CurvesEvents[2].type = "cv2" /\ CurvesEvents[2].name = "imread"
        /\ CurvesEvents[2].arg
              = ExpectedName(CurrentParts, TagsBeforeCurves, <<".", "tif">>)
        /\ CurvesEvents[3].type = "cv2" /\ CurvesEvents[3].name = "imwrite"
        /\ CurvesEvents[3].arg
              = ExpectedName(CurrentParts, Append(TagsBeforeCurves, "Curves"),
                             <<".", "tif">>)
        /\ CurvesEvents[4].type = "cmd" /\ CurvesEvents[4].name = "load"
        /\ CurvesEvents[4].arg = Quote(CurvesEvents[3].arg)

\* C27 witness: in save-only-final mode the curves step has run after
\* unclip on /a/b/img.fit and the host has loaded /a/b/img_UC_Curves.tif
C27_Witness ==
    /\ InRun /\ pc # "start"
    /\ save_each_step = Some(FALSE)
    /\ steps = <<"UC", "Curves">>
    /\ Len(CurvesEvents) = 4
    /\ CurvesEvents[4].ok
    /\ CurvesEvents[4].arg
          = <<"\"", "/", "a", "/", "b", "/", "img", "_", "UC", "_", "Curves",
              ".", "tif", "\"">>
\* the argument a is among the arguments of the command
HasArg(e, a) == \E i \in 1..Len(e.arg) : e.arg[i] = a

\* C28: in a run of Stackinator the calibrate command has the CFA
\* arguments exactly when the seqapplyreg command of the run has the
\* drizzle arguments, whenever the user clicks the drizzle checkbox
C28_OneDrizzleSetting ==
    script = "Stackinator" =>
        \A i \in 1..Len(log) : \A j \in 1..Len(log) :
            (/\ log[i].type = "cmd" /\ log[i].name = "calibrate"
             /\ log[j].type = "cmd" /\ log[j].name = "seqapplyreg") =>
                /\ HasArg(log[i], "-cfa") <=> HasArg(log[i], "-equalize_cfa")
                /\ HasArg(log[i], "-cfa") <=> HasArg(log[j], "-drizzle")
\* the host has had no image when Process was pressed last: process has
\* shown its error and no run has followed
NoImageReported ==
    /\ script = "Processinator"
    /\ current_file = None
    /\ log = <<Ev("msgbox", "error_messagebox", <<"No image selected">>,
                  "process", TRUE)>>

\* C30: when the host reports no image, process shows the error "No image
\* selected" and starts no run: no worker thread is created, the tag
\* sequence is what it was, the error box is the only call to the host and
\* the Process and Quit buttons stay enabled
C30_NoImageNoRun ==
    [][(process /\ current_file' = None) =>
          /\ NoImageReported'
          /\ pc' = "idle" /\ pc2' = pc2
          /\ steps' = steps
          /\ process_button' = NORMAL /\ close_button' = NORMAL]_vars

\* C30 witness: after a run that applied two tags or more, Process was
\* pressed while the host had no image
C30_Witness ==
    /\ NoImageReported
    /\ pc = "idle"
    /\ Len(steps) >= 2
    /\ process_button = NORMAL /\ close_button = NORMAL
=============================================================================
